---- MODULE Spec2Model ----
(***************************************************************************)
(* Job lifecycle of the async job-ticket system: the Submission Service    *)
(* (svc-api: routes.py, job_service.py, infra/dynamodb.py, infra/sqs.py),  *)
(* the Processing Worker (svc-worker: main.py, job_processor.py,           *)
(* infra/dynamodb.py, infra/sqs.py) and the Finalizer (dlq-handler).       *)
(* Every call to storage, queue or metrics is one atomic step, so that the *)
(* interleavings of concurrent requests, workers and the Finalizer are     *)
(* the behaviours of the model.                                            *)
(***************************************************************************)
EXTENDS Integers, Sequences, FiniteSets, TLC

(* ------------------------------ bounds -------------------------------- *)
\* number of job ids Job.create may hand out
MaxJobs == 2
\* number of API calls (create or retry) made over a behaviour
MaxCalls == 2
\* number of messages ever published to the work queue
MaxMsgs == 2
\* number of jobs created in the specifications of the whole pipeline
PipelineJobs == 1
\* redrive policy of the work queue: receives before dead-lettering
MaxReceiveCount == 2

Clients == {"c1", "c2"}
Workers == {"w1", "w2"}

(* ------------------------- program constants -------------------------- *)
max_retries == 3
max_messages == 10

(* --------------------------- optional values -------------------------- *)
\* Python None / an absent DynamoDB attribute is <<>>, a present value <<v>>
None == <<>>
Some(v) == <<v>>

(* ------------------------------- texts -------------------------------- *)
\* str(e) of the exceptions the code formats, as character sequences
SendPrefix == <<"F","a","i","l","e","d"," ","t","o"," ","s","e","n","d"," ","m","e","s","s","a","g","e"," ","t","o"," ","S","Q","S",":"," ">>
PutPrefix == <<"F","a","i","l","e","d"," ","t","o"," ","p","u","t"," ","j","o","b",":"," ">>
UpdatePrefix == <<"F","a","i","l","e","d"," ","t","o"," ","u","p","d","a","t","e"," ","j","o","b",":"," ">>
DeletePrefix == <<"F","a","i","l","e","d"," ","t","o"," ","d","e","l","e","t","e"," ","m","e","s","s","a","g","e"," ","f","r","o","m"," ","S","Q","S",":"," ">>
UnknownTypePrefix == <<"U","n","k","n","o","w","n"," ","j","o","b"," ","t","y","p","e",":"," ">>
DefaultFinalError == <<"J","o","b"," ","f","a","i","l","e","d"," ","a","f","t","e","r"," ","m","a","x"," ","r","e","t","r","i","e","s">>
ErrThrottling == <<"T","h","r","o","t","t","l","i","n","g">>
ErrAccessDenied == <<"A","c","c","e","s","s","D","e","n","i","e","d">>
Err503 == <<"5","0","3"," ","S","e","r","v","i","c","e"," ","U","n","a","v","a","i","l","a","b","l","e">>
ErrInvalid == <<"I","n","v","a","l","i","d"," ","i","n","p","u","t">>
ErrConnectTimeout == <<"C","o","n","n","e","c","t"," ","t","i","m","e","o","u","t">>
ErrBoom == <<"b","o","o","m">>

\* botocore ClientError texts a storage or queue call can fail with
ClientErrors == {ErrThrottling, ErrAccessDenied}
\* errors the work of a job can raise
WorkErrors == {Err503, ErrInvalid}
\* exceptions of a metrics call that are not ClientError
MetricErrors == {ErrConnectTimeout}

\* str.lower() on one character
LowerChar(ch) ==
  CASE ch = "A" -> "a" [] ch = "B" -> "b" [] ch = "C" -> "c" [] ch = "D" -> "d"
    [] ch = "E" -> "e" [] ch = "F" -> "f" [] ch = "G" -> "g" [] ch = "H" -> "h"
    [] ch = "I" -> "i" [] ch = "J" -> "j" [] ch = "K" -> "k" [] ch = "L" -> "l"
    [] ch = "M" -> "m" [] ch = "N" -> "n" [] ch = "O" -> "o" [] ch = "P" -> "p"
    [] ch = "Q" -> "q" [] ch = "R" -> "r" [] ch = "S" -> "s" [] ch = "T" -> "t"
    [] ch = "U" -> "u" [] ch = "V" -> "v" [] ch = "W" -> "w" [] ch = "X" -> "x"
    [] ch = "Y" -> "y" [] ch = "Z" -> "z" [] OTHER -> ch

\* fault injection: the text is searched as it is, not lowered
LowerNot(text) == text

Lower(text) == [i \in 1..Len(text) |-> LowerChar(text[i])]

\* Python `needle in text`
Contains(text, needle) ==
  \E i \in 1..(Len(text) - Len(needle) + 1) :
    SubSeq(text, i, i + Len(needle) - 1) = needle

retryable_indicators ==
  {<<"5","0","0">>, <<"5","0","3">>, <<"5","0","4">>,
   <<"t","h","r","o","t","t","l">>, <<"t","i","m","e","o","u","t">>,
   <<"c","o","n","n","e","c","t","i","o","n">>, <<"n","e","t","w","o","r","k">>}

\* JobProcessor._is_retryable_error
IsRetryableError(error) ==
  \E indicator \in retryable_indicators : Contains(Lower(error), indicator)

initial_backoff == 1
max_backoff == 30
backoff_multiplier == 2

\* fault injection: the cap of max_backoff left out
CalculateBackoffUncapped(attempt) == initial_backoff * (backoff_multiplier ^ attempt)

\* JobProcessor._calculate_backoff
CalculateBackoff(attempt) ==
  LET backoff == initial_backoff * (backoff_multiplier ^ attempt)
  IN IF backoff < max_backoff THEN backoff ELSE max_backoff


(* ------------------------------ domain -------------------------------- *)
PENDING == "PENDING"
PROCESSING == "PROCESSING"
SUCCEEDED == "SUCCEEDED"
FAILED == "FAILED"
FAILED_FINAL == "FAILED_FINAL"
JobStatus == {PENDING, PROCESSING, SUCCEEDED, FAILED, FAILED_FINAL}

allowed_types == {"process_document", "generate_report", "transform_data"}

\* request inputs
TypeInputs == {"process_document", "bogus"}
ParamInputs == {{}, {<<"source", "s3://b/k">>}, {<<"source", "s3://b/k2">>}}
KeyInputs == {None, Some("k1")}
TraceInputs == {None, Some(<<"hdr", 1>>)}

\* truthiness of an optional string header value (None and "" are falsy)
TruthyStr(v) == v # None /\ v[1] # ""

\* truthiness of an optional text (None and the empty text are falsy)
TruthyText(v) == v # None /\ Len(v[1]) > 0

\* sha256 over the key-sorted JSON of (type, priority, params)
PayloadHash(job_type, priority, params) == <<"sha256", job_type, priority, params>>

\* fault injection: a job is created with one attempt counted
JobCreateCounted(job_id, job_type, priority, params, idempotency_key, trace_id) ==
  [job_id |-> job_id, status |-> PENDING, job_type |-> job_type,
   idempotency_key |-> idempotency_key, trace_id |-> trace_id,
   payload_hash |-> Some(PayloadHash(job_type, priority, params)),
   attempts |-> 1, result |-> None, error |-> None]

\* Job.create: a PENDING job with a new id, attempts 0, no result, no error
JobCreate(job_id, job_type, priority, params, idempotency_key, trace_id) ==
  [job_id |-> job_id, status |-> PENDING, job_type |-> job_type,
   idempotency_key |-> idempotency_key, trace_id |-> trace_id,
   payload_hash |-> Some(PayloadHash(job_type, priority, params)),
   attempts |-> 0, result |-> None, error |-> None]

\* Job.to_dict: the stored item; optional fields only when not None
ToDict(job) ==
  [status |-> job.status, jobType |-> Some(job.job_type),
   idempotencyKey |-> job.idempotency_key, traceId |-> job.trace_id,
   payloadHash |-> job.payload_hash, attempts |-> Some(job.attempts),
   result |-> job.result, error |-> job.error]

\* Job.from_dict: defaults for the attributes an item may lack
FromDict(job_id, item) ==
  [job_id |-> job_id, status |-> item.status,
   job_type |-> IF item.jobType = None THEN "" ELSE item.jobType[1],
   idempotency_key |-> item.idempotencyKey, trace_id |-> item.traceId,
   payload_hash |-> item.payloadHash,
   attempts |-> IF item.attempts = None THEN 0 ELSE item.attempts[1],
   result |-> item.result, error |-> item.error]

(* ------------------------------ storage ------------------------------- *)
\* the item UpdateItem creates when the key has no item yet
EmptyItem ==
  [status |-> "", jobType |-> None, idempotencyKey |-> None, traceId |-> None,
   payloadHash |-> None, attempts |-> None, result |-> None, error |-> None]

ItemOf(tbl, job_id) == IF job_id \in DOMAIN tbl THEN tbl[job_id] ELSE EmptyItem

Store(tbl, job_id, item) ==
  [x \in DOMAIN tbl \cup {job_id} |-> IF x = job_id THEN item ELSE tbl[x]]

\* DynamoDBRepositoryImpl.put_job (svc-api): unconditional PutItem
PutJob(tbl, job) == Store(tbl, job.job_id, ToDict(job))

\* DynamoDBRepositoryImpl.get_job
GetJob(tbl, job_id) ==
  IF job_id \in DOMAIN tbl THEN Some(FromDict(job_id, tbl[job_id])) ELSE None

\* fault injection: a lookup that never finds the job of a key
GetJobByIdempotencyKeyBlind(tbl, key) == {}

\* DynamoDBRepositoryImpl.get_job_by_idempotency_key: the jobs the index
\* query with Limit=1 may return
GetJobByIdempotencyKey(tbl, key) ==
  {FromDict(x, tbl[x]) : x \in {y \in DOMAIN tbl : tbl[y].idempotencyKey = Some(key)}}

\* ids of the stored jobs that carry an (optional) idempotency key
KeyJobs(tbl, key) ==
  IF key = None THEN {} ELSE {y \in DOMAIN tbl : tbl[y].idempotencyKey = key}

\* fault injection: a status update that drops the error text
UpdateJobStatusNoError(tbl, job_id, status, error) ==
  Store(tbl, job_id, [ItemOf(tbl, job_id) EXCEPT !.status = status])

\* DynamoDBRepositoryImpl.update_job_status (svc-api): SET status [, error]
UpdateJobStatus(tbl, job_id, status, error) ==
  Store(tbl, job_id,
        [ItemOf(tbl, job_id) EXCEPT !.status = status,
                                    !.error = IF TruthyText(error) THEN error ELSE @])

\* DynamoDBRepositoryImpl.update_job (svc-worker): SET status [, result]
\* [, error] [, attempts]
UpdateJob(tbl, job_id, status, result, error, attempts) ==
  Store(tbl, job_id,
        [ItemOf(tbl, job_id) EXCEPT !.status = status,
                                    !.result = IF result # None THEN result ELSE @,
                                    !.error = IF error # None THEN error ELSE @,
                                    !.attempts = IF attempts # None THEN attempts ELSE @])

(* ------------------------------- state -------------------------------- *)
VARIABLES
  table,      \* the Jobs table: job id -> item
  queue,      \* the work queue: message id -> [body, rc, visible]
  dlq,        \* the dead-letter queue: message id -> body
  sub,        \* per client: the API call in progress and its outcome
  wrk,        \* per worker: position in the poll loop and in process_job
  fin,        \* the Finalizer invocation in progress
  nextJob,    \* next job id uuid4 hands to Job.create
  nextMsg,    \* next message id of the queue
  calls,      \* API calls started so far
  shutdown_flag,  \* the worker's global shutdown flag
  probe       \* a call of a pure method of JobProcessor on its own

vars ==
  <<table, queue, dlq, sub, wrk, fin, nextJob, nextMsg, calls, shutdown_flag, probe>>

\* fault injection: a body published without the payload hash of its job
MessageBodyNoHash(job, trace_id) ==
  [json |-> TRUE, jobId |-> Some(job.job_id), payloadHash |-> None,
   traceId |-> trace_id, error |-> None]

\* message body json.dumps({"jobId", "payloadHash", "traceId"}); json is
\* FALSE for a body that json.loads rejects, error is the optional "error" key
MessageBody(job, trace_id) ==
  [json |-> TRUE, jobId |-> Some(job.job_id), payloadHash |-> job.payload_hash,
   traceId |-> trace_id, error |-> None]

\* SQSClientImpl.send_message: a new visible message, never received
SendMessage(q, mid, body) ==
  [x \in DOMAIN q \cup {mid} |-> IF x = mid THEN [body |-> body, rc |-> 0, visible |-> TRUE]
                                 ELSE q[x]]

IdleCall ==
  [pc |-> "idle", op |-> "none", job_type |-> "", params |-> {},
   idempotency_key |-> None, trace_id |-> None, job |-> None, e |-> None,
   arg |-> 0, http |-> 0, ret |-> None, nPut |-> 0, nSend |-> 0, nUpd |-> 0,
   sent |-> FALSE, seen |-> {}, compensated |-> FALSE]

(* ------------------------ Submission Service -------------------------- *)
\* fault injection: a validator that accepts every type
ValidateTypeAny(v) == TRUE

\* JobRequest.validate_type
ValidateType(v) == v \in allowed_types

\* fault injection: the check of empty params left out
NotParamsNever(params) == FALSE

\* `if not params` of create_job
NotParams(params) == params = {}

\* POST /jobs: the request is validated by JobRequest (422 on a type that is
\* not allowed), then create_job generates the trace id and rejects empty
\* params with ValueError (400) before it touches storage or the queue
SubmitCall(c, job_type, params, key, trace) ==
  /\ sub[c].pc = "idle"
  /\ calls < MaxCalls
  /\ calls' = calls + 1
  /\ LET tid == IF trace = None THEN Some(<<"uuid", calls + 1>>) ELSE trace
         call == [IdleCall EXCEPT !.op = "create", !.job_type = job_type,
                                  !.params = params, !.idempotency_key = key,
                                  !.trace_id = tid, !.seen = KeyJobs(table, key)]
     IN sub' = [sub EXCEPT ![c] =
          IF ~ValidateType(job_type) THEN [call EXCEPT !.http = 422]
          ELSE IF NotParams(params) THEN [call EXCEPT !.http = 400]
          ELSE IF TruthyStr(key) THEN [call EXCEPT !.pc = "lookup"]
          ELSE [call EXCEPT !.pc = "put"]]
  /\ UNCHANGED <<table, queue, dlq, wrk, fin, nextJob, nextMsg, shutdown_flag, probe>>

\* create_job lines 64-73: the idempotency lookup; an existing job is
\* returned verbatim, otherwise the call goes on to create one
SubmitLookup(c) ==
  /\ sub[c].pc = "lookup"
  /\ LET found == GetJobByIdempotencyKey(table, sub[c].idempotency_key[1])
     IN IF found = {} THEN sub' = [sub EXCEPT ![c].pc = "put"]
        ELSE \E existing_job \in found :
               sub' = [sub EXCEPT ![c].pc = "idle", ![c].http = 201,
                                  ![c].ret = Some(existing_job)]
  /\ UNCHANGED <<table, queue, dlq, wrk, fin, nextJob, nextMsg, calls, shutdown_flag, probe>>

\* the lookup fails: RuntimeError propagates, the route answers 500
SubmitLookupFail(c) ==
  /\ sub[c].pc = "lookup"
  /\ \E err \in ClientErrors :
       sub' = [sub EXCEPT ![c].pc = "idle", ![c].http = 500, ![c].e = Some(err)]
  /\ UNCHANGED <<table, queue, dlq, wrk, fin, nextJob, nextMsg, calls, shutdown_flag, probe>>

\* create_job lines 76-87: Job.create, then put_job
SubmitPut(c) ==
  /\ sub[c].pc = "put"
  /\ nextJob <= MaxJobs
  /\ nextJob' = nextJob + 1
  /\ LET job == JobCreate(nextJob, sub[c].job_type, "normal", sub[c].params,
                          sub[c].idempotency_key, sub[c].trace_id)
     IN /\ table' = PutJob(table, job)
        /\ sub' = [sub EXCEPT ![c].pc = "send", ![c].job = Some(job), ![c].nPut = @ + 1]
  /\ UNCHANGED <<queue, dlq, wrk, fin, nextMsg, calls, shutdown_flag, probe>>

\* put_job fails: caught by the handler of line 127
SubmitPutFail(c) ==
  /\ sub[c].pc = "put"
  /\ nextJob <= MaxJobs
  /\ nextJob' = nextJob + 1
  /\ LET job == JobCreate(nextJob, sub[c].job_type, "normal", sub[c].params,
                          sub[c].idempotency_key, sub[c].trace_id)
     IN \E err \in ClientErrors :
          sub' = [sub EXCEPT ![c].pc = "compensate", ![c].job = Some(job),
                             ![c].nPut = @ + 1, ![c].e = Some(PutPrefix \o err)]
  /\ UNCHANGED <<table, queue, dlq, wrk, fin, nextMsg, calls, shutdown_flag, probe>>

\* create_job lines 96-111: publish {jobId, payloadHash, traceId}
SubmitSend(c) ==
  /\ sub[c].pc = "send"
  /\ nextMsg <= MaxMsgs
  /\ queue' = SendMessage(queue, nextMsg, MessageBody(sub[c].job[1], sub[c].trace_id))
  /\ nextMsg' = nextMsg + 1
  /\ sub' = [sub EXCEPT ![c].pc = "metrics", ![c].nSend = @ + 1, ![c].sent = TRUE]
  /\ UNCHANGED <<table, dlq, wrk, fin, nextJob, calls, shutdown_flag, probe>>

\* send_message fails: caught by the handler of line 127
SubmitSendFail(c) ==
  /\ sub[c].pc = "send"
  /\ \E err \in ClientErrors :
       sub' = [sub EXCEPT ![c].pc = "compensate", ![c].nSend = @ + 1,
                          ![c].e = Some(SendPrefix \o err)]
  /\ UNCHANGED <<table, queue, dlq, wrk, fin, nextJob, nextMsg, calls, shutdown_flag, probe>>

\* create_job lines 122-125: metrics emitted (put_metric swallows a
\* ClientError), the job is returned
SubmitMetrics(c) ==
  /\ sub[c].pc = "metrics"
  /\ sub' = [sub EXCEPT ![c].pc = "idle", ![c].http = 201, ![c].ret = sub[c].job]
  /\ UNCHANGED <<table, queue, dlq, wrk, fin, nextJob, nextMsg, calls, shutdown_flag, probe>>

\* put_metric raises an exception that is not a ClientError: caught by the
\* handler of line 127
SubmitMetricsFail(c) ==
  /\ sub[c].pc = "metrics"
  /\ \E err \in MetricErrors :
       sub' = [sub EXCEPT ![c].pc = "compensate", ![c].e = Some(err)]
  /\ UNCHANGED <<table, queue, dlq, wrk, fin, nextJob, nextMsg, calls, shutdown_flag, probe>>

\* fault injection: the compensating update stamps FAILED_FINAL
SubmitCompensateFinal(c) ==
  /\ sub[c].pc = "compensate"
  /\ table' = UpdateJobStatus(table, sub[c].job[1].job_id, FAILED_FINAL, sub[c].e)
  /\ sub' = [sub EXCEPT ![c].pc = "idle", ![c].http = 500, ![c].nUpd = @ + 1,
                        ![c].compensated = TRUE]
  /\ UNCHANGED <<queue, dlq, wrk, fin, nextJob, nextMsg, calls, shutdown_flag, probe>>

\* create_job lines 127-146: one update_job_status(job_id, FAILED, str(e));
\* the call ends with an exception that the route answers with 500
SubmitCompensate(c) ==
  /\ sub[c].pc = "compensate"
  /\ table' = UpdateJobStatus(table, sub[c].job[1].job_id, FAILED, sub[c].e)
  /\ sub' = [sub EXCEPT ![c].pc = "idle", ![c].http = 500, ![c].nUpd = @ + 1,
                        ![c].compensated = TRUE]
  /\ UNCHANGED <<queue, dlq, wrk, fin, nextJob, nextMsg, calls, shutdown_flag, probe>>

\* fault injection: the failure of the compensating update swallows the
\* error of the publish and the job is returned
SubmitCompensateFailSwallow(c) ==
  /\ sub[c].pc = "compensate"
  /\ sub' = [sub EXCEPT ![c].pc = "idle", ![c].http = 201, ![c].nUpd = @ + 1,
                        ![c].ret = sub[c].job]
  /\ UNCHANGED <<table, queue, dlq, wrk, fin, nextJob, nextMsg, calls, shutdown_flag, probe>>

\* the compensating update fails: logged, the call still ends with 500
SubmitCompensateFail(c) ==
  /\ sub[c].pc = "compensate"
  /\ sub' = [sub EXCEPT ![c].pc = "idle", ![c].http = 500, ![c].nUpd = @ + 1]
  /\ UNCHANGED <<table, queue, dlq, wrk, fin, nextJob, nextMsg, calls, shutdown_flag, probe>>

\* POST /jobs/{job_id}/retry; the id is that of a stored job or 0, an id no
\* job has, but never the uuid4 of a job whose create call has not returned
\* yet, which no caller knows
RetryCall(c, job_id, trace) ==
  /\ sub[c].pc = "idle"
  /\ calls < MaxCalls
  /\ job_id = 0 \/ job_id \in DOMAIN table
  /\ \A d \in Clients : sub[d].pc # "idle" /\ sub[d].op = "create" /\ sub[d].job # None
                           => sub[d].job[1].job_id # job_id
  /\ calls' = calls + 1
  /\ sub' = [sub EXCEPT ![c] =
       [IdleCall EXCEPT !.op = "retry", !.pc = "retry_get", !.arg = job_id,
                        !.trace_id = IF trace = None THEN Some(<<"uuid", calls + 1>>)
                                     ELSE trace]]
  /\ UNCHANGED <<table, queue, dlq, wrk, fin, nextJob, nextMsg, shutdown_flag, probe>>

\* retry_job without the status check of lines 161-162
RetryGetNoCheck(c) ==
  /\ sub[c].pc = "retry_get"
  /\ LET job == GetJob(table, sub[c].arg)
     IN sub' = [sub EXCEPT ![c] =
          IF job = None THEN [@ EXCEPT !.pc = "idle", !.http = 400]
          ELSE [@ EXCEPT !.pc = "retry_send", !.job = job]]
  /\ UNCHANGED <<table, queue, dlq, wrk, fin, nextJob, nextMsg, calls, shutdown_flag, probe>>

\* retry_job lines 157-162: both ValueErrors are answered with 400
RetryGet(c) ==
  /\ sub[c].pc = "retry_get"
  /\ LET job == GetJob(table, sub[c].arg)
     IN sub' = [sub EXCEPT ![c] =
          IF job = None THEN [@ EXCEPT !.pc = "idle", !.http = 400]
          ELSE IF job[1].status # PENDING
                 THEN [@ EXCEPT !.pc = "idle", !.http = 400, !.job = job]
          ELSE [@ EXCEPT !.pc = "retry_send", !.job = job]]
  /\ UNCHANGED <<table, queue, dlq, wrk, fin, nextJob, nextMsg, calls, shutdown_flag, probe>>

\* get_job fails: RuntimeError, 500
RetryGetFail(c) ==
  /\ sub[c].pc = "retry_get"
  /\ \E err \in ClientErrors :
       sub' = [sub EXCEPT ![c].pc = "idle", ![c].http = 500, ![c].e = Some(err)]
  /\ UNCHANGED <<table, queue, dlq, wrk, fin, nextJob, nextMsg, calls, shutdown_flag, probe>>

\* fault injection: the re-published message carries the stored trace id of
\* the job instead of that of the request
RetrySendStoredTrace(c) ==
  /\ sub[c].pc = "retry_send"
  /\ nextMsg <= MaxMsgs
  /\ queue' = SendMessage(queue, nextMsg, MessageBody(sub[c].job[1], sub[c].job[1].trace_id))
  /\ nextMsg' = nextMsg + 1
  /\ sub' = [sub EXCEPT ![c].pc = "idle", ![c].http = 200, ![c].ret = sub[c].job,
                        ![c].nSend = @ + 1, ![c].sent = TRUE]
  /\ UNCHANGED <<table, dlq, wrk, fin, nextJob, calls, shutdown_flag, probe>>

\* retry_job lines 164-186: re-publish, no storage write
RetrySend(c) ==
  /\ sub[c].pc = "retry_send"
  /\ nextMsg <= MaxMsgs
  /\ queue' = SendMessage(queue, nextMsg, MessageBody(sub[c].job[1], sub[c].trace_id))
  /\ nextMsg' = nextMsg + 1
  /\ sub' = [sub EXCEPT ![c].pc = "idle", ![c].http = 200, ![c].ret = sub[c].job,
                        ![c].nSend = @ + 1, ![c].sent = TRUE]
  /\ UNCHANGED <<table, dlq, wrk, fin, nextJob, calls, shutdown_flag, probe>>

\* retry_job lines 187-194: the publish fails, RuntimeError, 500
RetrySendFail(c) ==
  /\ sub[c].pc = "retry_send"
  /\ \E err \in ClientErrors :
       sub' = [sub EXCEPT ![c].pc = "idle", ![c].http = 500, ![c].nSend = @ + 1,
                          ![c].e = Some(SendPrefix \o err)]
  /\ UNCHANGED <<table, queue, dlq, wrk, fin, nextJob, nextMsg, calls, shutdown_flag, probe>>

(* ------------------------------- queue -------------------------------- *)
\* the batch a receive or an event source hands over, in message id order
RECURSIVE Batch(_, _)
Batch(q, S) ==
  IF S = {} THEN <<>>
  ELSE LET m == CHOOSE x \in S : \A y \in S : x <= y
       IN <<[mid |-> m, body |-> q[m].body]>> \o Batch(q, S \ {m})

\* messages a receive can deliver
Receivable(q) == {m \in DOMAIN q : q[m].visible /\ q[m].rc < MaxReceiveCount}

\* SQSClient.delete_message: the message leaves the work queue
DeleteMessage(q, mid) == [m \in DOMAIN q \ {mid} |-> q[m]]

\* the visibility timeout of a delivered message expires
VisibilityTimeout(m) ==
  /\ m \in DOMAIN queue
  /\ ~queue[m].visible
  /\ queue' = [queue EXCEPT ![m].visible = TRUE]
  /\ UNCHANGED <<table, dlq, sub, wrk, fin, nextJob, nextMsg, calls, shutdown_flag, probe>>

\* redrive policy: a message received MaxReceiveCount times without being
\* deleted moves to the dead-letter queue
Redrive(m) ==
  /\ m \in DOMAIN queue
  /\ queue[m].visible
  /\ queue[m].rc >= MaxReceiveCount
  /\ queue' = DeleteMessage(queue, m)
  /\ dlq' = [x \in DOMAIN dlq \cup {m} |-> IF x = m THEN [body |-> queue[m].body] ELSE dlq[x]]
  /\ UNCHANGED <<table, sub, wrk, fin, nextJob, nextMsg, calls, shutdown_flag, probe>>

(* ------------------------- Processing Worker -------------------------- *)
IdleWorker ==
  [pc |-> "poll", batch |-> <<>>, mid |-> 0, job |-> None, attempt |-> 0,
   result |-> None, ret |-> None, log |-> <<>>, errs |-> <<>>]

\* one entry of the record of a process_job call; errs of a worker are the
\* texts of the errors the work raised in the call
Ev(name, n) == [ev |-> name, n |-> n]

Count(log, name) == Cardinality({i \in 1..Len(log) : log[i].ev = name})

\* process_job returns to the loop over the batch
Return(wr, success) == [wr EXCEPT !.pc = "batch", !.batch = Tail(@), !.ret = Some(success)]

\* fault injection: the test of the last attempt off by one, so that the
\* loop sleeps after the last attempt too
HandleErrorSleepAlways(wr, error) ==
  IF ~IsRetryableError(error) THEN Return(wr, FALSE)
  ELSE IF wr.attempt < max_retries
    THEN [wr EXCEPT !.pc = "work", !.attempt = @ + 1,
                    !.log = Append(@, Ev("sleep", CalculateBackoff(wr.attempt)))]
  ELSE Return(wr, FALSE)

\* fault injection: the loop over the attempts is twice as long
HandleErrorNoLimit(wr, error) ==
  IF ~IsRetryableError(error) THEN Return(wr, FALSE)
  ELSE IF wr.attempt < 2 * max_retries - 1
    THEN [wr EXCEPT !.pc = "work", !.attempt = @ + 1,
                    !.log = Append(@, Ev("sleep", CalculateBackoff(wr.attempt)))]
  ELSE Return(wr, FALSE)

\* process_job lines 137-179: the handler of a failed attempt; a permanent
\* error or the last attempt returns False, otherwise sleep and go on
HandleError(wr, error) ==
  IF ~IsRetryableError(error) THEN Return(wr, FALSE)
  ELSE IF wr.attempt < max_retries - 1
    THEN [wr EXCEPT !.pc = "work", !.attempt = @ + 1,
                    !.log = Append(@, Ev("sleep", CalculateBackoff(wr.attempt)))]
  ELSE Return(wr, FALSE)

\* JobProcessor._execute_job: the result for a known type, ValueError for
\* an unknown one
TypeText(job_type) ==
  CASE job_type = "bogus" -> <<"b","o","g","u","s">> [] OTHER -> <<>>

ExecuteResult(job) ==
  CASE job.job_type = "process_document" -> Some("processed")
    [] job.job_type = "generate_report" -> Some("generated")
    [] job.job_type = "transform_data" -> Some("transformed")
    [] OTHER -> None

\* main lines 95-102: long poll while the shutdown flag is not set
WorkerReceive(w) ==
  /\ wrk[w].pc = "poll"
  /\ ~shutdown_flag
  /\ \E S \in SUBSET Receivable(queue) :
       /\ S # {}
       /\ Cardinality(S) <= max_messages
       /\ queue' = [m \in DOMAIN queue |->
                      IF m \in S THEN [queue[m] EXCEPT !.rc = @ + 1, !.visible = FALSE]
                      ELSE queue[m]]
       /\ wrk' = [wrk EXCEPT ![w].pc = "batch", ![w].batch = Batch(queue, S)]
  /\ UNCHANGED <<table, dlq, sub, fin, nextJob, nextMsg, calls, shutdown_flag, probe>>

\* fault injection: a gate that also turns away a job another delivery has
\* marked PROCESSING
IsTerminalOrProcessing(status) == status \in {SUCCEEDED, FAILED_FINAL, PROCESSING}

\* fault injection: a gate that forgets FAILED_FINAL
IsTerminalSucceededOnly(status) == status = SUCCEEDED

\* the gate of process_job lines 71-72
IsTerminal(status) == status \in {SUCCEEDED, FAILED_FINAL}

\* fault injection: the loop over the batch does not test the shutdown flag
WorkerMessageAnyway(w) ==
  /\ wrk[w].pc = "batch"
  /\ wrk[w].batch # <<>>
  /\ LET message == Head(wrk[w].batch)
         body == message.body
         drop == [wrk[w] EXCEPT !.pc = "drop", !.mid = message.mid]
     IN wrk' = [wrk EXCEPT ![w] =
          IF ~body.json THEN drop
          ELSE IF body.jobId = None THEN [@ EXCEPT !.batch = Tail(@)]
          ELSE LET job == GetJob(table, body.jobId[1])
               IN IF job = None THEN drop
                  ELSE [@ EXCEPT !.pc = IF IsTerminal(job[1].status) THEN "gate_ack"
                                        ELSE "mark",
                                 !.mid = message.mid, !.job = job, !.attempt = 0,
                                 !.result = None, !.ret = None, !.log = <<>>,
                                 !.errs = <<>>]]
  /\ UNCHANGED <<table, queue, dlq, sub, fin, nextJob, nextMsg, calls, shutdown_flag, probe>>

\* main lines 111-137: the next message of the batch is parsed and its job
\* fetched; process_job starts with the idempotency gate
WorkerMessage(w) ==
  /\ wrk[w].pc = "batch"
  /\ wrk[w].batch # <<>>
  /\ ~shutdown_flag
  /\ LET message == Head(wrk[w].batch)
         body == message.body
         drop == [wrk[w] EXCEPT !.pc = "drop", !.mid = message.mid]
     IN wrk' = [wrk EXCEPT ![w] =
          IF ~body.json THEN drop
          ELSE IF body.jobId = None THEN [@ EXCEPT !.batch = Tail(@)]
          ELSE LET job == GetJob(table, body.jobId[1])
               IN IF job = None THEN drop
                  ELSE [@ EXCEPT !.pc = IF IsTerminal(job[1].status) THEN "gate_ack"
                                        ELSE "mark",
                                 !.mid = message.mid, !.job = job, !.attempt = 0,
                                 !.result = None, !.ret = None, !.log = <<>>,
                                 !.errs = <<>>]]
  /\ UNCHANGED <<table, queue, dlq, sub, fin, nextJob, nextMsg, calls, shutdown_flag, probe>>

\* fault injection: the error of get_job is not caught and ends the loop
WorkerMessageFailExit(w) ==
  /\ wrk[w].pc = "batch"
  /\ wrk[w].batch # <<>>
  /\ ~shutdown_flag
  /\ Head(wrk[w].batch).body.json
  /\ Head(wrk[w].batch).body.jobId # None
  /\ wrk' = [wrk EXCEPT ![w].pc = "stopped"]
  /\ UNCHANGED <<table, queue, dlq, sub, fin, nextJob, nextMsg, calls, shutdown_flag, probe>>

\* main lines 125 and 152-153: get_job raises, the error is logged and the
\* loop goes on with the next message
WorkerMessageFail(w) ==
  /\ wrk[w].pc = "batch"
  /\ wrk[w].batch # <<>>
  /\ ~shutdown_flag
  /\ Head(wrk[w].batch).body.json
  /\ Head(wrk[w].batch).body.jobId # None
  /\ wrk' = [wrk EXCEPT ![w].batch = Tail(@)]
  /\ UNCHANGED <<table, queue, dlq, sub, fin, nextJob, nextMsg, calls, shutdown_flag, probe>>

\* fault injection: the message of a missing job or of an unparsable body
\* is logged and left in the queue
WorkerDropKeep(w) ==
  /\ wrk[w].pc = "drop"
  /\ wrk' = [wrk EXCEPT ![w].pc = "batch", ![w].batch = Tail(@),
                        ![w].log = <<Ev("ack", 0)>>]
  /\ UNCHANGED <<table, queue, dlq, sub, fin, nextJob, nextMsg, calls, shutdown_flag, probe>>

\* main lines 129 and 149: the message of a missing job or of an unparsable
\* body is deleted; the record of the worker shows the delete
WorkerDrop(w) ==
  /\ wrk[w].pc = "drop"
  /\ queue' = DeleteMessage(queue, wrk[w].mid)
  /\ wrk' = [wrk EXCEPT ![w].pc = "batch", ![w].batch = Tail(@),
                        ![w].log = <<Ev("ack", 0)>>]
  /\ UNCHANGED <<table, dlq, sub, fin, nextJob, nextMsg, calls, shutdown_flag, probe>>

\* the delete fails: ignored (line 150) or logged (line 153)
WorkerDropFail(w) ==
  /\ wrk[w].pc = "drop"
  /\ wrk' = [wrk EXCEPT ![w].pc = "batch", ![w].batch = Tail(@),
                        ![w].log = <<Ev("ack_failed", 0)>>]
  /\ UNCHANGED <<table, queue, dlq, sub, fin, nextJob, nextMsg, calls, shutdown_flag, probe>>

\* main lines 111-113 and 155-161: the loop over the batch ends (or breaks
\* on shutdown) and the loop polls again
WorkerBatchEnd(w) ==
  /\ wrk[w].pc = "batch"
  /\ wrk[w].batch = <<>> \/ shutdown_flag
  /\ wrk' = [wrk EXCEPT ![w] = IdleWorker]
  /\ UNCHANGED <<table, queue, dlq, sub, fin, nextJob, nextMsg, calls, shutdown_flag, probe>>

\* process_job lines 72-88: already processed, delete and return True
WorkerGateAck(w) ==
  /\ wrk[w].pc = "gate_ack"
  /\ queue' = DeleteMessage(queue, wrk[w].mid)
  /\ wrk' = [wrk EXCEPT ![w] = Return([@ EXCEPT !.log = Append(@, Ev("ack", 0))], TRUE)]
  /\ UNCHANGED <<table, dlq, sub, fin, nextJob, nextMsg, calls, shutdown_flag, probe>>

\* process_job lines 82-88: the delete fails, a warning, True all the same
WorkerGateAckFail(w) ==
  /\ wrk[w].pc = "gate_ack"
  /\ wrk' = [wrk EXCEPT ![w] =
               Return([@ EXCEPT !.log = Append(@, Ev("ack_failed", 0))], TRUE)]
  /\ UNCHANGED <<table, queue, dlq, sub, fin, nextJob, nextMsg, calls, shutdown_flag, probe>>

\* process_job lines 90-96: PROCESSING with attempts + 1
WorkerMark(w) ==
  /\ wrk[w].pc = "mark"
  /\ LET job == wrk[w].job[1]
     IN /\ table' = UpdateJob(table, job.job_id, PROCESSING, None, None,
                              Some(job.attempts + 1))
        /\ wrk' = [wrk EXCEPT ![w].pc = "work",
                              ![w].log = Append(@, Ev("update_PROCESSING", job.attempts + 1))]
  /\ UNCHANGED <<queue, dlq, sub, fin, nextJob, nextMsg, calls, shutdown_flag, probe>>

\* fault injection: the failure of the PROCESSING update is logged and the
\* call goes on to the work
WorkerMarkFailGoOn(w) ==
  /\ wrk[w].pc = "mark"
  /\ wrk' = [wrk EXCEPT ![w].pc = "work",
                        ![w].log = Append(@, Ev("update_failed", 0))]
  /\ UNCHANGED <<table, queue, dlq, sub, fin, nextJob, nextMsg, calls, shutdown_flag, probe>>

\* process_job lines 97-103: the update fails, False
WorkerMarkFail(w) ==
  /\ wrk[w].pc = "mark"
  /\ wrk' = [wrk EXCEPT ![w] =
               Return([@ EXCEPT !.log = Append(@, Ev("update_failed", 0))], FALSE)]
  /\ UNCHANGED <<table, queue, dlq, sub, fin, nextJob, nextMsg, calls, shutdown_flag, probe>>

\* fault injection: the message is acknowledged right after the work, the
\* SUCCEEDED update left out
WorkerExecuteThenAck(w) ==
  /\ wrk[w].pc = "work"
  /\ LET job == wrk[w].job[1]
         invoked == [wrk[w] EXCEPT !.log = Append(@, Ev("work", wrk[w].attempt))]
         unknown == UnknownTypePrefix \o TypeText(job.job_type)
     IN wrk' = [wrk EXCEPT ![w] =
          IF ExecuteResult(job) = None
            THEN HandleError([invoked EXCEPT !.errs = Append(@, unknown)], unknown)
          ELSE [invoked EXCEPT !.pc = "ack", !.result = ExecuteResult(job)]]
  /\ UNCHANGED <<table, queue, dlq, sub, fin, nextJob, nextMsg, calls, shutdown_flag, probe>>

\* process_job line 109: one invocation of the work of the job
WorkerExecute(w) ==
  /\ wrk[w].pc = "work"
  /\ LET job == wrk[w].job[1]
         invoked == [wrk[w] EXCEPT !.log = Append(@, Ev("work", wrk[w].attempt))]
         unknown == UnknownTypePrefix \o TypeText(job.job_type)
     IN wrk' = [wrk EXCEPT ![w] =
          IF ExecuteResult(job) = None
            THEN HandleError([invoked EXCEPT !.errs = Append(@, unknown)], unknown)
          ELSE [invoked EXCEPT !.pc = "succeed", !.result = ExecuteResult(job)]]
  /\ UNCHANGED <<table, queue, dlq, sub, fin, nextJob, nextMsg, calls, shutdown_flag, probe>>

\* the work of a job of a known type raises
WorkerExecuteFail(w) ==
  /\ wrk[w].pc = "work"
  /\ ExecuteResult(wrk[w].job[1]) # None
  /\ \E err \in WorkErrors :
       wrk' = [wrk EXCEPT ![w] =
         HandleError([@ EXCEPT !.log = Append(@, Ev("work", wrk[w].attempt)),
                               !.errs = Append(@, err)], err)]
  /\ UNCHANGED <<table, queue, dlq, sub, fin, nextJob, nextMsg, calls, shutdown_flag, probe>>

\* process_job lines 112-117: SUCCEEDED with the result
WorkerSucceed(w) ==
  /\ wrk[w].pc = "succeed"
  /\ LET job == wrk[w].job[1]
         attempts == job.attempts + 1 + wrk[w].attempt
     IN /\ table' = UpdateJob(table, job.job_id, SUCCEEDED, wrk[w].result, None,
                              Some(attempts))
        /\ wrk' = [wrk EXCEPT ![w].pc = "ack",
                              ![w].log = Append(@, Ev("update_SUCCEEDED", attempts))]
  /\ UNCHANGED <<queue, dlq, sub, fin, nextJob, nextMsg, calls, shutdown_flag, probe>>

\* the SUCCEEDED update raises inside the try of line 107
WorkerSucceedFail(w) ==
  /\ wrk[w].pc = "succeed"
  /\ \E err \in ClientErrors :
       wrk' = [wrk EXCEPT ![w] =
         HandleError([@ EXCEPT !.log = Append(@, Ev("update_failed", 0))],
                     UpdatePrefix \o err)]
  /\ UNCHANGED <<table, queue, dlq, sub, fin, nextJob, nextMsg, calls, shutdown_flag, probe>>

\* fault injection: process_job returns True without deleting the message
WorkerAckKeep(w) ==
  /\ wrk[w].pc = "ack"
  /\ wrk' = [wrk EXCEPT ![w] = Return([@ EXCEPT !.log = Append(@, Ev("ack", 0))], TRUE)]
  /\ UNCHANGED <<table, queue, dlq, sub, fin, nextJob, nextMsg, calls, shutdown_flag, probe>>

\* process_job lines 120-135: delete the message, emit metrics, return True
WorkerAck(w) ==
  /\ wrk[w].pc = "ack"
  /\ queue' = DeleteMessage(queue, wrk[w].mid)
  /\ wrk' = [wrk EXCEPT ![w] = Return([@ EXCEPT !.log = Append(@, Ev("ack", 0))], TRUE)]
  /\ UNCHANGED <<table, dlq, sub, fin, nextJob, nextMsg, calls, shutdown_flag, probe>>

\* fault injection: the error of the delete propagates out of process_job
\* to the except of the loop over the batch
WorkerAckFailRaise(w) ==
  /\ wrk[w].pc = "ack"
  /\ \E err \in ClientErrors :
       wrk' = [wrk EXCEPT ![w].pc = "batch", ![w].batch = Tail(@),
                          ![w].log = Append(@, Ev("ack_failed", 0))]
  /\ UNCHANGED <<table, queue, dlq, sub, fin, nextJob, nextMsg, calls, shutdown_flag, probe>>

\* fault injection: the failure of the delete on the success path is
\* logged and the call returns True, as on the path of the gate
WorkerAckFailTrue(w) ==
  /\ wrk[w].pc = "ack"
  /\ wrk' = [wrk EXCEPT ![w] =
               Return([@ EXCEPT !.log = Append(@, Ev("ack_failed", 0))], TRUE)]
  /\ UNCHANGED <<table, queue, dlq, sub, fin, nextJob, nextMsg, calls, shutdown_flag, probe>>

\* delete_message raises inside the try of line 107
WorkerAckFail(w) ==
  /\ wrk[w].pc = "ack"
  /\ \E err \in ClientErrors :
       wrk' = [wrk EXCEPT ![w] =
         HandleError([@ EXCEPT !.log = Append(@, Ev("ack_failed", 0))],
                     DeletePrefix \o err)]
  /\ UNCHANGED <<table, queue, dlq, sub, fin, nextJob, nextMsg, calls, shutdown_flag, probe>>

\* main lines 99-103 and 165-167: receive_messages raises, the error is
\* logged and the loop sleeps 5 s
WorkerReceiveFail(w) ==
  /\ wrk[w].pc = "poll"
  /\ ~shutdown_flag
  /\ wrk' = [wrk EXCEPT ![w].pc = "sleep"]
  /\ UNCHANGED <<table, queue, dlq, sub, fin, nextJob, nextMsg, calls, shutdown_flag, probe>>

\* main line 167: the sleep is over, back to the test of the while
WorkerWake(w) ==
  /\ wrk[w].pc = "sleep"
  /\ wrk' = [wrk EXCEPT ![w].pc = "poll"]
  /\ UNCHANGED <<table, queue, dlq, sub, fin, nextJob, nextMsg, calls, shutdown_flag, probe>>

\* main lines 95 and 169: the test of the while finds the flag set and the
\* loop is left
WorkerStop(w) ==
  /\ wrk[w].pc = "poll"
  /\ shutdown_flag
  /\ wrk' = [wrk EXCEPT ![w].pc = "stopped"]
  /\ UNCHANGED <<table, queue, dlq, sub, fin, nextJob, nextMsg, calls, shutdown_flag, probe>>

\* signal_handler: SIGINT or SIGTERM sets the flag, at any point of the loop
SignalHandler ==
  /\ ~shutdown_flag
  /\ shutdown_flag' = TRUE
  /\ UNCHANGED <<table, queue, dlq, sub, wrk, fin, nextJob, nextMsg, calls, probe>>

(* ----------------------------- Finalizer ------------------------------ *)
IdleFinalizer == [pc |-> "idle", records |-> <<>>, i |-> 1, processed |-> 0, failed |-> 0]

\* the value of an "error" key that is null in the JSON of a body; the error
\* of a body is None when the body has no such key
JsonNull == <<"null">>

\* fault injection: the error text of the message is ignored
ErrorMessageDefault(body) == Some(DefaultFinalError)

\* handler line 48: body.get("error", "Job failed after max retries"); the
\* default is for a body without the key, the null of a body whose "error"
\* is null is what the update stores
ErrorMessage(body) ==
  IF body.error = None THEN Some(DefaultFinalError)
  ELSE IF body.error = Some(JsonNull) THEN None
  ELSE body.error

\* fault injection: the update is made only for a job that is FAILED
HandlerUpdateIfFailed(tbl, job_id, error_message) ==
  IF ItemOf(tbl, job_id).status = FAILED
    THEN Store(tbl, job_id,
               [ItemOf(tbl, job_id) EXCEPT !.status = FAILED_FINAL, !.error = error_message])
  ELSE tbl

\* handler lines 52-64: SET status = FAILED_FINAL, error, unconditionally
HandlerUpdate(tbl, job_id, error_message) ==
  Store(tbl, job_id,
        [ItemOf(tbl, job_id) EXCEPT !.status = FAILED_FINAL, !.error = error_message])

\* bodies a dead-lettered message can have: not JSON, JSON without a job
\* id, a job id alone (what the Submission Service publishes), a job id
\* with an error that is a text, the empty text or null
DeadLetterBodies ==
  LET body == [json |-> TRUE, jobId |-> None, payloadHash |-> None, traceId |-> None,
               error |-> None]
  IN {[body EXCEPT !.json = FALSE], body}
       \cup {[body EXCEPT !.jobId = Some(j), !.error = e] :
               j \in 1..MaxJobs, e \in {None, Some(ErrBoom), Some(<<>>), Some(JsonNull)}}

\* a message reaches the dead-letter queue from outside the work queue
DeadLetter(body) ==
  /\ nextMsg <= MaxMsgs
  /\ nextMsg' = nextMsg + 1
  /\ dlq' = [x \in DOMAIN dlq \cup {nextMsg} |->
               IF x = nextMsg THEN [body |-> body] ELSE dlq[x]]
  /\ UNCHANGED <<table, queue, sub, wrk, fin, nextJob, calls, shutdown_flag, probe>>

\* the event source invokes the handler with a batch of dead-lettered messages
FinalizeInvoke ==
  /\ fin.pc = "idle"
  /\ \E S \in SUBSET DOMAIN dlq :
       /\ S # {}
       /\ fin' = [IdleFinalizer EXCEPT !.pc = "records", !.records = Batch(dlq, S)]
  /\ UNCHANGED <<table, queue, dlq, sub, wrk, nextJob, nextMsg, calls, shutdown_flag, probe>>

\* fault injection: a record without a usable job id raises out of the
\* handler, which ends the invocation
FinalizeRecordRaise ==
  /\ fin.pc = "records"
  /\ fin.i <= Len(fin.records)
  /\ LET body == fin.records[fin.i].body
     IN IF ~body.json \/ body.jobId = None
          THEN /\ fin' = IdleFinalizer
               /\ UNCHANGED table
        ELSE /\ table' = HandlerUpdate(table, body.jobId[1], ErrorMessage(body))
             /\ fin' = [fin EXCEPT !.i = @ + 1, !.processed = @ + 1]
  /\ UNCHANGED <<queue, dlq, sub, wrk, nextJob, nextMsg, calls, shutdown_flag, probe>>

\* handler lines 33-70: one record of the event
FinalizeRecord ==
  /\ fin.pc = "records"
  /\ fin.i <= Len(fin.records)
  /\ LET body == fin.records[fin.i].body
     IN IF ~body.json \/ body.jobId = None
          THEN /\ fin' = [fin EXCEPT !.i = @ + 1, !.failed = @ + 1]
               /\ UNCHANGED table
        ELSE /\ table' = HandlerUpdate(table, body.jobId[1], ErrorMessage(body))
             /\ fin' = [fin EXCEPT !.i = @ + 1, !.processed = @ + 1]
  /\ UNCHANGED <<queue, dlq, sub, wrk, nextJob, nextMsg, calls, shutdown_flag, probe>>

\* handler lines 72-77: update_item raises ClientError, counted as failed
FinalizeRecordFail ==
  /\ fin.pc = "records"
  /\ fin.i <= Len(fin.records)
  /\ fin.records[fin.i].body.json
  /\ fin.records[fin.i].body.jobId # None
  /\ fin' = [fin EXCEPT !.i = @ + 1, !.failed = @ + 1]
  /\ UNCHANGED <<table, queue, dlq, sub, wrk, nextJob, nextMsg, calls, shutdown_flag, probe>>

\* handler lines 86-92: statusCode 200 is returned whatever happened, and the
\* event source deletes the batch from the dead-letter queue
FinalizeReturn ==
  /\ fin.pc = "records"
  /\ fin.i > Len(fin.records)
  /\ dlq' = [m \in DOMAIN dlq \ {fin.records[k].mid : k \in 1..Len(fin.records)} |-> dlq[m]]
  /\ fin' = IdleFinalizer
  /\ UNCHANGED <<table, queue, sub, wrk, nextJob, nextMsg, calls, shutdown_flag, probe>>

(* ------------------------- pure methods ------------------------------- *)
\* largest attempt index a backoff is computed for
MaxAttempt == 12

\* error texts with an indicator in them, in some case and position
RetryableSamples ==
  {<<"5","0","0"," ","I","n","t","e","r","n","a","l"," ","S","e","r","v","e","r"," ","E","r","r","o","r">>,
   <<"5","0","4"," ","G","a","t","e","w","a","y"," ","T","i","m","e","o","u","t">>,
   <<"T","h","r","o","t","t","l","i","n","g","E","x","c","e","p","t","i","o","n">>,
   <<"C","o","n","n","e","c","t","i","o","n"," ","t","i","m","e","o","u","t">>,
   <<"N","E","T","W","O","R","K"," ","u","n","r","e","a","c","h","a","b","l","e">>,
   <<"R","e","a","d"," ","T","i","m","e","o","u","t">>,
   <<"t","h","r","o","t","t","l","e","d">>,
   <<"e","r","r","5","0","4","0">>,
   <<"C","o","n","n","e","c","t","i","o","n","R","e","s","e","t","E","r","r","o","r">>,
   Err503, ErrThrottling, ErrConnectTimeout}

\* error texts without an indicator, near misses included
PermanentSamples ==
  {<<"4","0","0"," ","B","a","d"," ","R","e","q","u","e","s","t">>,
   <<"4","0","4"," ","N","o","t"," ","F","o","u","n","d">>,
   <<"5","0"," ","3">>,
   <<"t","i","m","e"," ","o","u","t">>,
   <<"t","h","r","o","t","l","e">>,
   <<"n","e","t"," ","w","o","r","k">>,
   <<"c","o","n","n","e","c","t">>,
   <<>>,
   ErrInvalid, ErrAccessDenied}

\* what the infrastructure clients put in front of the text of a ClientError
ErrorPrefixes == {<<>>, UpdatePrefix, DeletePrefix}

NoProbe ==
  [pc |-> "none", prefix |-> <<>>, text |-> <<>>, attempt |-> 0,
   retryable |-> None, delay |-> None]

\* processor._is_retryable_error(Exception(prefix + text))
ProbeClassify ==
  /\ probe.pc = "input"
  /\ probe' = [probe EXCEPT !.pc = "classified",
                            !.retryable = Some(IsRetryableError(probe.prefix \o probe.text))]
  /\ UNCHANGED <<table, queue, dlq, sub, wrk, fin, nextJob, nextMsg, calls, shutdown_flag>>

\* processor._calculate_backoff(attempt)
ProbeBackoff ==
  /\ probe.pc = "classified"
  /\ probe' = [probe EXCEPT !.pc = "done", !.delay = Some(CalculateBackoff(probe.attempt))]
  /\ UNCHANGED <<table, queue, dlq, sub, wrk, fin, nextJob, nextMsg, calls, shutdown_flag>>

(* --------------------------- specifications --------------------------- *)
Init ==
  /\ table = <<>>
  /\ queue = <<>>
  /\ dlq = <<>>
  /\ sub = [c \in Clients |-> IdleCall]
  /\ wrk = [w \in Workers |-> IdleWorker]
  /\ fin = IdleFinalizer
  /\ nextJob = 1
  /\ nextMsg = 1
  /\ calls = 0
  /\ shutdown_flag = FALSE
  /\ probe = NoProbe

\* the Submission Service under concurrent clients, every call may fail
NextApi ==
  \E c \in Clients :
    \/ \E t \in TypeInputs, p \in ParamInputs, k \in KeyInputs, tr \in TraceInputs :
         SubmitCall(c, t, p, k, tr)
    \/ SubmitLookup(c) \/ SubmitLookupFail(c)
    \/ SubmitPut(c) \/ SubmitPutFail(c)
    \/ SubmitSend(c) \/ SubmitSendFail(c)
    \/ SubmitMetrics(c) \/ SubmitMetricsFail(c)
    \/ SubmitCompensate(c) \/ SubmitCompensateFail(c)
    \/ \E j \in 0..MaxJobs, tr \in TraceInputs : RetryCall(c, j, tr)
    \/ RetryGet(c) \/ RetryGetFail(c)
    \/ RetrySend(c) \/ RetrySendFail(c)

SpecApi == Init /\ [][NextApi]_vars

\* the steps of a worker that succeed
WorkerSteps(w) ==
  \/ WorkerReceive(w) \/ WorkerMessage(w) \/ WorkerBatchEnd(w)
  \/ WorkerGateAck(w) \/ WorkerMark(w) \/ WorkerExecute(w)
  \/ WorkerSucceed(w) \/ WorkerAck(w)

\* the steps of a worker in which storage, the queue or the work fails
WorkerFaults(w) ==
  \/ WorkerMessageFail(w) \/ WorkerGateAckFail(w) \/ WorkerMarkFail(w)
  \/ WorkerExecuteFail(w) \/ WorkerSucceedFail(w) \/ WorkerAckFail(w)

\* a client creating jobs, no call of which fails
SubmitSteps(c) ==
  \/ \E t \in TypeInputs, p \in {{}, {<<"source", "s3://b/k">>}}, k \in KeyInputs :
       SubmitCall(c, t, p, k, None)
  \/ SubmitLookup(c)
  \/ nextJob <= PipelineJobs /\ SubmitPut(c)
  \/ SubmitSend(c) \/ SubmitMetrics(c)

QueueSteps == \E m \in 1..MaxMsgs : VisibilityTimeout(m) \/ Redrive(m)

FinalizeSteps == FinalizeInvoke \/ FinalizeRecord \/ FinalizeReturn

\* one worker with every failure of storage, queue and work, fed by one
\* client, with redelivery, dead-lettering and the Finalizer
NextWorker ==
  \/ SubmitSteps("c1")
  \/ WorkerSteps("w1") \/ WorkerFaults("w1")
  \/ QueueSteps
  \/ FinalizeSteps

SpecWorker == Init /\ [][NextWorker]_vars

\* NextWorker with the worker as a running process: the poll loop takes its
\* next step, failing or not, whenever it has one
SpecProcess ==
  Init /\ [][NextWorker]_vars /\ WF_vars(WorkerSteps("w1") \/ WorkerFaults("w1"))

\* the whole pipeline: a client that creates and retries one job, a publish
\* or metrics failure with its compensation, two workers, redelivery,
\* dead-lettering and the Finalizer
Next ==
  \/ SubmitCall("c1", "process_document", {<<"source", "s3://b/k">>}, None, None)
  \/ nextJob <= PipelineJobs /\ SubmitPut("c1")
  \/ SubmitSend("c1") \/ SubmitMetrics("c1")
  \/ SubmitSendFail("c1") \/ SubmitMetricsFail("c1") \/ SubmitCompensate("c1")
  \/ \E j \in 1..PipelineJobs : RetryCall("c1", j, None)
  \/ RetryGet("c1") \/ RetrySend("c1")
  \/ \E w \in Workers : WorkerSteps(w)
  \/ QueueSteps
  \/ FinalizeSteps

Spec == Init /\ [][Next]_vars

\* duplicate delivery with nothing failing: one job, published once, handed
\* to two workers when its visibility timeout expires
NextDuplicate ==
  \/ SubmitCall("c1", "process_document", {<<"source", "s3://b/k">>}, None, None)
  \/ nextJob <= PipelineJobs /\ SubmitPut("c1")
  \/ SubmitSend("c1") \/ SubmitMetrics("c1")
  \/ \E w \in Workers : WorkerSteps(w)
  \/ \E m \in 1..MaxMsgs : VisibilityTimeout(m)

SpecDuplicate == Init /\ [][NextDuplicate]_vars

\* the pure methods of JobProcessor called on their own, as the unit tests
\* call them, over sample error texts and attempt indexes
InitPure ==
  /\ table = <<>> /\ queue = <<>> /\ dlq = <<>>
  /\ sub = [c \in Clients |-> IdleCall]
  /\ wrk = [w \in Workers |-> IdleWorker]
  /\ fin = IdleFinalizer
  /\ nextJob = 1 /\ nextMsg = 1 /\ calls = 0
  /\ shutdown_flag = FALSE
  /\ \E p \in ErrorPrefixes, t \in RetryableSamples \cup PermanentSamples,
        n \in 0..MaxAttempt :
       probe = [NoProbe EXCEPT !.pc = "input", !.prefix = p, !.text = t, !.attempt = n]

NextPure == ProbeClassify \/ ProbeBackoff

SpecPure == InitPure /\ [][NextPure]_vars


\* the Finalizer on dead-lettered messages of every kind, over jobs that a
\* client created (one of them FAILED by compensation) and a worker
\* processed
NextFinalizer ==
  \/ SubmitCall("c1", "process_document", {<<"source", "s3://b/k">>}, None, None)
  \/ SubmitPut("c1")
  \/ SubmitSend("c1") \/ SubmitMetrics("c1")
  \/ SubmitSendFail("c1") \/ SubmitCompensate("c1")
  \/ WorkerSteps("w1")
  \/ \E body \in DeadLetterBodies : DeadLetter(body)
  \/ FinalizeSteps \/ FinalizeRecordFail

SpecFinalizer == Init /\ [][NextFinalizer]_vars

\* Retry next to the rest of the pipeline: a client that creates one job
\* (its publish may fail) and retries, with or without an X-Trace-Id header,
\* every call of Retry may fail; one worker whose acknowledgements may fail,
\* redelivery, dead-lettering and the Finalizer bring the job to each status
NextRetry ==
  \/ \E tr \in TraceInputs :
       SubmitCall("c1", "process_document", {<<"source", "s3://b/k">>}, None, tr)
  \/ nextJob <= PipelineJobs /\ SubmitPut("c1")
  \/ SubmitSend("c1") \/ SubmitMetrics("c1")
  \/ SubmitSendFail("c1") \/ SubmitCompensate("c1") \/ SubmitCompensateFail("c1")
  \/ \E j \in 0..PipelineJobs, tr \in TraceInputs : RetryCall("c1", j, tr)
  \/ RetryGet("c1") \/ RetryGetFail("c1")
  \/ RetrySend("c1") \/ RetrySendFail("c1")
  \/ WorkerSteps("w1") \/ WorkerAckFail("w1") \/ WorkerGateAckFail("w1")
  \/ QueueSteps
  \/ FinalizeSteps

SpecRetry == Init /\ [][NextRetry]_vars

\* the pipeline with nothing failing: a client creating jobs, workers that
\* are scheduled fairly, messages whose visibility timeout expires,
\* dead-lettering and the Finalizer
NextLive ==
  \/ SubmitSteps("c1")
  \/ \E w \in Workers : WorkerSteps(w)
  \/ QueueSteps
  \/ FinalizeSteps

\* a worker is a process of its own running the poll loop of main: it takes
\* its next step whenever it has one
SpecLive == Init /\ [][NextLive]_vars /\ \A w \in Workers : WF_vars(WorkerSteps(w))

\* every writer of a stored job next to the others: a client that creates
\* jobs with and without an idempotency key and retries them, its publish
\* and metrics failures with their compensation, a worker, redelivery,
\* dead-lettering and the Finalizer
NextFields ==
  \/ \E k \in KeyInputs :
       SubmitCall("c1", "process_document", {<<"source", "s3://b/k">>}, k, None)
  \/ SubmitLookup("c1")
  \/ nextJob <= PipelineJobs /\ SubmitPut("c1")
  \/ SubmitSend("c1") \/ SubmitMetrics("c1")
  \/ SubmitSendFail("c1") \/ SubmitMetricsFail("c1") \/ SubmitCompensate("c1")
  \/ \E j \in 1..PipelineJobs : RetryCall("c1", j, None)
  \/ RetryGet("c1") \/ RetrySend("c1")
  \/ WorkerSteps("w1") \/ WorkerExecuteFail("w1")
  \/ QueueSteps
  \/ FinalizeSteps

SpecFields == Init /\ [][NextFields]_vars

\* the poll loop of one worker over batches of up to two messages, with
\* the failures of receive, of the job lookup and of the calls of
\* process_job, and the shutdown signal at any point
NextLoop ==
  \/ SubmitCall("c1", "process_document", {<<"source", "s3://b/k">>}, None, None)
  \/ SubmitPut("c1")
  \/ SubmitSend("c1") \/ SubmitMetrics("c1")
  \/ WorkerSteps("w1") \/ WorkerFaults("w1")
  \/ WorkerReceiveFail("w1") \/ WorkerWake("w1") \/ WorkerStop("w1")
  \/ SignalHandler
  \/ \E m \in 1..MaxMsgs : VisibilityTimeout(m)

SpecLoop == Init /\ [][NextLoop]_vars

\* the steps of the poll loop of a worker in which nothing fails but the
\* receive, the work and the delete of a finished message
LoopSteps(w) ==
  \/ WorkerSteps(w) \/ WorkerExecuteFail(w) \/ WorkerAckFail(w)
  \/ WorkerReceiveFail(w) \/ WorkerWake(w) \/ WorkerStop(w)

\* the worker of NextShutdown
LoopWorkers == {"w1"}

\* the poll loop of one worker over batches of up to two messages, with
\* the shutdown signal at any point of it
NextShutdown ==
  \/ SubmitCall("c1", "process_document", {<<"source", "s3://b/k">>}, None, None)
  \/ SubmitPut("c1")
  \/ SubmitSend("c1") \/ SubmitMetrics("c1")
  \/ \E w \in LoopWorkers : LoopSteps(w)
  \/ SignalHandler
  \/ \E m \in 1..MaxMsgs : VisibilityTimeout(m)

\* the poll loop is the main thread of its process: it takes its next step
\* whenever it has one
SpecShutdown ==
  Init /\ [][NextShutdown]_vars /\ \A w \in LoopWorkers : WF_vars(LoopSteps(w))

\* the steps of a worker when storage never fails: the work and the
\* deletes of the queue may fail
FairWorkerSteps(w) ==
  \/ WorkerSteps(w) \/ WorkerExecuteFail(w)
  \/ WorkerAckFail(w) \/ WorkerGateAckFail(w)

\* the pipeline when storage never fails: a client creating a job, a worker
\* whose work and deletes may fail, redelivery, dead-lettering and the
\* Finalizer
NextFair ==
  \/ SubmitSteps("c1")
  \/ FairWorkerSteps("w1")
  \/ QueueSteps
  \/ FinalizeSteps

\* the worker and the Finalizer take their next step whenever they have
\* one, the queue makes an unacknowledged message visible again when its
\* visibility timeout expires and moves it to the dead-letter queue once it
\* was received MaxReceiveCount times
SpecFair ==
  /\ Init /\ [][NextFair]_vars
  /\ WF_vars(FairWorkerSteps("w1"))
  /\ WF_vars(FinalizeSteps)
  /\ \A m \in 1..MaxMsgs : WF_vars(VisibilityTimeout(m)) /\ WF_vars(Redrive(m))

\* bodies of messages that something other than the Submission Service
\* sends to the work queue: not JSON, JSON without a job id, a job id that
\* may have no stored job
StrayBodies ==
  LET body == [json |-> TRUE, jobId |-> None, payloadHash |-> None, traceId |-> None,
               error |-> None]
  IN {[body EXCEPT !.json = FALSE], body}
       \cup {[body EXCEPT !.jobId = Some(j)] : j \in 1..MaxJobs}

\* a message that the Submission Service did not publish reaches the work queue
StrayMessage(body) ==
  /\ nextMsg <= MaxMsgs
  /\ queue' = SendMessage(queue, nextMsg, body)
  /\ nextMsg' = nextMsg + 1
  /\ UNCHANGED <<table, dlq, sub, wrk, fin, nextJob, calls, shutdown_flag, probe>>

\* the poll loop of one worker on messages of every kind: those of a client
\* creating a job and stray ones, with the failures of the job lookup and
\* of the delete of a dropped message
NextStray ==
  \/ SubmitCall("c1", "process_document", {<<"source", "s3://b/k">>}, None, None)
  \/ nextJob <= PipelineJobs /\ SubmitPut("c1")
  \/ SubmitSend("c1") \/ SubmitMetrics("c1")
  \/ \E body \in StrayBodies : StrayMessage(body)
  \/ WorkerSteps("w1") \/ WorkerMessageFail("w1")
  \/ WorkerDrop("w1") \/ WorkerDropFail("w1")
  \/ \E m \in 1..MaxMsgs : VisibilityTimeout(m)

SpecStray == Init /\ [][NextStray]_vars

(* ------------------------------ lifecycle ----------------------------- *)
\* the status stored for a job changes in this step
StatusChanges(j) == j \in DOMAIN table' /\ table'[j].status # table[j].status

\* C1: the stored status of a job changes only along PENDING -> PROCESSING,
\* PROCESSING -> SUCCEEDED, PROCESSING -> FAILED and, in a step of the
\* Finalizer only, FAILED -> FAILED_FINAL; no other change ever happens
C1_OnlyListedTransitions ==
  [][\A j \in DOMAIN table :
       StatusChanges(j) =>
         \/ <<table[j].status, table'[j].status>> \in
              {<<PENDING, PROCESSING>>, <<PROCESSING, SUCCEEDED>>, <<PROCESSING, FAILED>>}
         \/ /\ <<table[j].status, table'[j].status>> = <<FAILED, FAILED_FINAL>>
            /\ fin' # fin]_vars

\* C2: once the stored status of a job is SUCCEEDED or FAILED_FINAL no later
\* step changes it
C2_TerminalNeverChanges ==
  [][\A j \in DOMAIN table :
       table[j].status \in {SUCCEEDED, FAILED_FINAL} => ~StatusChanges(j)]_vars

\* C3: for every idempotency key at most one stored job carries it
C3_AtMostOneJobPerKey ==
  \A k \in KeyInputs \ {None} : Cardinality(KeyJobs(table, k)) <= 1

(* ----------------------------- submission ---------------------------- *)
\* a create call that has returned to its caller
Returned(c) == sub[c].op = "create" /\ sub[c].pc = "idle"

\* a create call that made no storage write and published nothing
Untouched(c) == sub[c].nPut = 0 /\ sub[c].nSend = 0 /\ sub[c].nUpd = 0

\* C4 as stated: a create call that starts when a job with its key is
\* already stored returns that job whatever its payload is, writes nothing
\* and publishes nothing
C4_SecondReturnsFirst ==
  \A c \in Clients :
    Returned(c) /\ sub[c].seen # {} =>
      /\ sub[c].http = 201
      /\ sub[c].ret # None
      /\ sub[c].ret[1].job_id \in sub[c].seen
      /\ Untouched(c)

\* C4: a create call that starts when a job with its key is already stored
\* makes no storage write and publishes no message; if its payload is valid
\* and its lookup does not fail it returns a stored job carrying the key,
\* otherwise it ends in a validation or a dependency error
C4_SecondValidReturnsFirst ==
  \A c \in Clients :
    sub[c].op = "create" /\ sub[c].seen # {} =>
      /\ Untouched(c)
      /\ Returned(c) =>
           IF sub[c].job_type \in allowed_types /\ sub[c].params # {} /\ sub[c].http # 500
             THEN /\ sub[c].http = 201
                  /\ sub[c].ret # None
                  /\ sub[c].ret[1].job_id \in KeyJobs(table, sub[c].idempotency_key)
                  /\ sub[c].ret[1].idempotency_key = sub[c].idempotency_key
             ELSE sub[c].http \in {400, 422, 500} /\ sub[c].ret = None

\* a second call with the key and another payload got the first job back
C4_Witness ==
  \E c \in Clients :
    /\ Returned(c) /\ sub[c].seen # {} /\ sub[c].http = 201
    /\ sub[c].ret[1].job_id \in sub[c].seen
    /\ sub[c].ret[1].payload_hash # PayloadHash(sub[c].job_type, "normal", sub[c].params)

\* C5: a create call with empty params ends in a validation error and makes
\* no storage write and no publish, with or without an idempotency key
C5_EmptyParamsRejected ==
  \A c \in Clients :
    sub[c].op = "create" /\ sub[c].params = {} =>
      /\ sub[c].pc = "idle"
      /\ sub[c].http \in {400, 422}
      /\ sub[c].ret = None
      /\ Untouched(c)

\* empty params were rejected by create_job although the key of the call
\* is the key of a stored job
C5_Witness ==
  \E c \in Clients :
    /\ Returned(c) /\ sub[c].params = {} /\ sub[c].http = 400
    /\ sub[c].seen # {}

\* C6: a create call whose type is not an allowed one ends in a validation
\* error with no storage write and no publish, so no stored job, no message
\* and no job a worker holds has such a type
C6_UnknownTypeRejected ==
  /\ \A c \in Clients :
       sub[c].op = "create" /\ sub[c].job_type \notin allowed_types =>
         /\ sub[c].pc = "idle"
         /\ sub[c].http = 422
         /\ sub[c].ret = None
         /\ Untouched(c)
  /\ \A j \in DOMAIN table :
       table[j].jobType # None => table[j].jobType[1] \in allowed_types
  /\ \A m \in DOMAIN queue :
       /\ queue[m].body.jobId # None
       /\ queue[m].body.jobId[1] \in DOMAIN table
  /\ \A w \in Workers :
       wrk[w].job # None => wrk[w].job[1].job_type \in allowed_types

\* a call with an unknown type and non-empty params was rejected while a
\* worker was processing a job
C6_Witness ==
  /\ \E c \in Clients :
       /\ Returned(c) /\ sub[c].job_type \notin allowed_types
       /\ sub[c].params # {} /\ sub[c].http = 422
  /\ \E w \in Workers : wrk[w].pc = "work"

\* a create call that has returned after its storage write succeeded and
\* its publish failed
PublishFailed(c) == Returned(c) /\ sub[c].nSend = 1 /\ ~sub[c].sent

\* C7: when the storage write succeeds and the publish then fails the caller
\* gets a dependency error and, if the compensating update succeeds, the
\* stored job is FAILED with the error of the publish recorded
C7_PublishFailureCompensated ==
  \A c \in Clients :
    PublishFailed(c) =>
      /\ sub[c].http = 500
      /\ sub[c].compensated =>
           LET job_id == sub[c].job[1].job_id
           IN /\ job_id \in DOMAIN table
              /\ table[job_id].status = FAILED
              /\ table[job_id].error = sub[c].e
              /\ SubSeq(sub[c].e[1], 1, Len(SendPrefix)) = SendPrefix

\* a call whose publish failed and whose compensating update succeeded
C7_Witness ==
  \E c \in Clients : PublishFailed(c) /\ sub[c].compensated /\ sub[c].http = 500

\* C8: when the publish fails the caller gets the dependency error whether
\* the compensating update succeeds or fails, exactly one compensating
\* update is attempted, and when that update fails too the job is PENDING
\* with no message for it in the queue as the call returns
C8_PublishFailureAlwaysReported ==
  [][\A c \in Clients :
       /\ sub[c].pc = "compensate" /\ sub[c].nSend = 1 /\ ~sub[c].sent
       /\ sub'[c].pc = "idle"
       => /\ sub'[c].http = 500
          /\ sub'[c].ret = None
          /\ sub'[c].nUpd = 1
          /\ ~sub'[c].compensated =>
               LET job_id == sub[c].job[1].job_id
               IN /\ table'[job_id].status = PENDING
                  /\ \A m \in DOMAIN queue' : queue'[m].body.jobId # Some(job_id)]_vars

\* a call whose publish and compensating update both failed
C8_Witness ==
  \E c \in Clients :
    /\ PublishFailed(c) /\ ~sub[c].compensated /\ sub[c].http = 500 /\ sub[c].nUpd = 1
    /\ table[sub[c].job[1].job_id].status = PENDING

(* ----------------------------- processing ---------------------------- *)
\* the job handed to the running or last process_job call of a worker was
\* fetched with a terminal status
FetchedTerminal(w) ==
  wrk[w].job # None /\ wrk[w].job[1].status \in {SUCCEEDED, FAILED_FINAL}

\* C9: a process_job call whose job is SUCCEEDED or FAILED_FINAL attempts
\* one acknowledge, returns True, never invokes the work and makes no
\* storage update
C9_TerminalJobOnlyAcknowledged ==
  \A w \in Workers :
    FetchedTerminal(w) =>
      \/ wrk[w].pc = "gate_ack" /\ wrk[w].log = <<>> /\ wrk[w].ret = None
      \/ /\ wrk[w].pc = "batch"
         /\ wrk[w].ret = Some(TRUE)
         /\ Len(wrk[w].log) = 1
         /\ wrk[w].log[1].ev \in {"ack", "ack_failed"}

\* a redelivered message of a job that is already SUCCEEDED was acknowledged
C9_Witness ==
  \E w \in Workers :
    /\ FetchedTerminal(w) /\ wrk[w].job[1].status = SUCCEEDED
    /\ wrk[w].ret = Some(TRUE) /\ wrk[w].log = <<Ev("ack", 0)>>

\* a process_job call that has returned and in which the work succeeded
WorkSucceeded(w) == wrk[w].ret # None /\ wrk[w].result # None

\* C10 as stated: whenever the work succeeds in a process_job call the call
\* returns True with the SUCCEEDED update made before the one acknowledge
C10_WorkSuccessIsSuccess ==
  \A w \in Workers :
    WorkSucceeded(w) =>
      /\ wrk[w].ret = Some(TRUE)
      /\ Count(wrk[w].log, "ack") = 1
      /\ wrk[w].log[Len(wrk[w].log)].ev = "ack"
      /\ wrk[w].log[Len(wrk[w].log) - 1].ev = "update_SUCCEEDED"

\* what the record of the calls of a process_job shows about its
\* acknowledge on the success path
AckAfterSucceededWrite(w) ==
  LET log == wrk[w].log
  IN /\ wrk[w].pc = "ack" => log[Len(log)].ev = "update_SUCCEEDED"
     /\ ~FetchedTerminal(w) =>
          /\ \A i \in 1..Len(log) :
               log[i].ev = "ack" =>
                 /\ i = Len(log) /\ i > 2
                 /\ log[i - 1].ev = "update_SUCCEEDED"
                 /\ log[i - 2].ev = "work"
                 /\ wrk[w].ret = Some(TRUE)
          /\ wrk[w].ret = Some(TRUE) => Len(log) > 0 /\ log[Len(log)].ev = "ack"
          /\ wrk[w].ret = Some(FALSE) => Count(log, "ack") = 0

\* C10: when the work succeeds and the SUCCEEDED update and the acknowledge
\* that follow it succeed, the job is updated to SUCCEEDED with the result
\* before the message is acknowledged, the message is acknowledged exactly
\* once and the call returns True; no acknowledge of this path comes before
\* the SUCCEEDED write of the call, and a call in which the update or the
\* acknowledge fails for good returns False without an acknowledge
C10_SucceededWriteThenAck ==
  /\ [](\A w \in Workers : AckAfterSucceededWrite(w))
  /\ [][\A w \in Workers :
          /\ wrk[w].pc = "succeed" /\ wrk'[w].pc = "ack" =>
               LET job_id == wrk[w].job[1].job_id
               IN /\ table'[job_id].status = SUCCEEDED
                  /\ table'[job_id].result = wrk[w].result
                  /\ wrk[w].result # None
                  /\ queue' = queue
          /\ wrk[w].pc = "ack" /\ wrk'[w].ret = Some(TRUE) =>
               /\ wrk[w].mid \notin DOMAIN queue'
               /\ table' = table]_vars

\* the first attempt of the work succeeded, the update and the acknowledge
\* went through
C10_Witness ==
  \E w \in Workers :
    /\ WorkSucceeded(w) /\ wrk[w].ret = Some(TRUE)
    /\ wrk[w].log = <<Ev("update_PROCESSING", 1), Ev("work", 0),
                      Ev("update_SUCCEEDED", 1), Ev("ack", 0)>>
    /\ wrk[w].mid \notin DOMAIN queue

\* the names of the entries of a record of calls
Events(log) == [i \in 1..Len(log) |-> log[i].ev]

\* a process_job call that has returned and in which every invocation of
\* the work raised the error text
WorkAlwaysRaised(w, text) ==
  /\ wrk[w].ret # None /\ wrk[w].result = None
  /\ wrk[w].errs # <<>>
  /\ \A i \in 1..Len(wrk[w].errs) : wrk[w].errs[i] = text

\* C11: when the work raises a retryable error on every attempt, one
\* process_job call invokes it exactly 3 times, sleeps 1 s and 2 s between
\* the invocations and not after the last, acknowledges nothing, returns
\* False and leaves the stored status PROCESSING
C11_RetryableOnEveryAttempt ==
  \A w \in Workers :
    WorkAlwaysRaised(w, Err503) =>
      /\ wrk[w].ret = Some(FALSE)
      /\ Events(wrk[w].log) =
           <<"update_PROCESSING", "work", "sleep", "work", "sleep", "work">>
      /\ <<wrk[w].log[2].n, wrk[w].log[4].n, wrk[w].log[6].n>> = <<0, 1, 2>>
      /\ <<wrk[w].log[3].n, wrk[w].log[5].n>> = <<1, 2>>
      /\ Len(wrk[w].errs) = 3
      /\ wrk[w].mid \in DOMAIN queue =>
           table[wrk[w].job[1].job_id].status = PROCESSING

\* three attempts that raised "503 Service Unavailable", the message still
\* in the queue and the job PROCESSING
C11_Witness ==
  \E w \in Workers :
    /\ WorkAlwaysRaised(w, Err503) /\ Len(wrk[w].errs) = 3
    /\ wrk[w].ret = Some(FALSE)
    /\ wrk[w].mid \in DOMAIN queue
    /\ table[wrk[w].job[1].job_id].status = PROCESSING

\* C12: when the work raises a permanent error on an attempt of a
\* process_job call, the call invokes the work no more and does not sleep,
\* acknowledges nothing, returns False and leaves the stored status
\* PROCESSING; no step of the worker writes FAILED
C12_PermanentErrorStops ==
  /\ \A j \in DOMAIN table : table[j].status # FAILED
  /\ \A w \in Workers : \A i \in 1..Len(wrk[w].errs) :
       wrk[w].errs[i] = ErrInvalid =>
         /\ i = Len(wrk[w].errs)
         /\ wrk[w].ret = Some(FALSE)
         /\ wrk[w].log[Len(wrk[w].log)].ev = "work"
         /\ Count(wrk[w].log, "ack") = 0
         /\ wrk[w].mid \in DOMAIN queue =>
              table[wrk[w].job[1].job_id].status = PROCESSING

(* ---------------------------- pure methods ---------------------------- *)
\* C13: delay(n) = min(initial_backoff * multiplier^n, max_backoff): with
\* the defaults 1, 2, 4, 8 for n = 0..3, 16 for n = 4 and the cap 30 from
\* n = 5 on (so delay(10) <= 30); the delay of the next index is the delay
\* times the multiplier, capped, so it never decreases and never exceeds
\* max_backoff
C13_BackoffValues ==
  probe.delay # None =>
    LET n == probe.attempt
        d == probe.delay[1]
        next == CalculateBackoff(n + 1)
    IN /\ d = (CASE n = 0 -> 1 [] n = 1 -> 2 [] n = 2 -> 4 [] n = 3 -> 8
                 [] n = 4 -> 16 [] OTHER -> 30)
       /\ n = 10 => d <= 30
       /\ d <= max_backoff
       /\ d <= next
       /\ next = IF d * backoff_multiplier < max_backoff
                   THEN d * backoff_multiplier ELSE max_backoff

\* the backoff of attempt 10 was computed and is the cap
C13_Witness ==
  probe.pc = "done" /\ probe.attempt = 10 /\ probe.delay = Some(max_backoff)

\* C14: an error is classified retryable exactly when its text, whatever
\* the case of its letters, contains one of "500", "503", "504", "throttl",
\* "timeout", "connection", "network"; every other error is permanent.
\* Every indicator is the only one of some retryable sample, and the
\* permanent samples hold the texts of the tests and near misses
C14_ClassifierExact ==
  probe.retryable # None =>
    /\ probe.text \in RetryableSamples => probe.retryable = Some(TRUE)
    /\ probe.text \in PermanentSamples => probe.retryable = Some(FALSE)
    /\ Cardinality(retryable_indicators) = 7

\* "ThrottlingException", with a capital T, behind the text of a failed
\* delete was classified retryable
C14_Witness ==
  /\ probe.retryable = Some(TRUE)
  /\ probe.text = <<"T","h","r","o","t","t","l","i","n","g","E","x","c","e","p","t","i","o","n">>
  /\ probe.prefix = DeletePrefix

(* ------------------------------ Finalizer ----------------------------- *)
\* the handler goes over the record it is at in this step
RecordStep == fin.pc = "records" /\ fin.i <= Len(fin.records) /\ fin'.i = fin.i + 1

\* the body of the record the handler is at
RecordBody == fin.records[fin.i].body

\* what the handler stores for the body of a record
FinalError(body) ==
  IF body.error = None THEN Some(DefaultFinalError)
  ELSE IF body.error = Some(JsonNull) THEN None
  ELSE body.error

\* the job of the body is FAILED_FINAL with the error of the body after the
\* step, nothing else of it and no other job has changed
Finalized(body) ==
  LET job_id == body.jobId[1]
      before == IF job_id \in DOMAIN table THEN table[job_id] ELSE EmptyItem
  IN /\ job_id \in DOMAIN table'
     /\ table'[job_id] = [before EXCEPT !.status = FAILED_FINAL, !.error = FinalError(body)]
     /\ \A j \in DOMAIN table' \ {job_id} : j \in DOMAIN table /\ table'[j] = table[j]

C16_PoisonRecordSkipped ==
  /\ [](fin.pc = "records" => fin.processed + fin.failed = fin.i - 1)
  /\ [][/\ RecordStep /\ (~RecordBody.json \/ RecordBody.jobId = None)
             => /\ table' = table
                /\ fin' = [fin EXCEPT !.i = @ + 1, !.failed = @ + 1]
        /\ fin.pc = "records" /\ fin'.pc # "records"
             => /\ fin.i = Len(fin.records) + 1
                /\ fin.processed + fin.failed = Len(fin.records)]_vars

\* a batch of an unparsable record and a record with a job id: the first
\* was skipped, the second finalized
C16_Witness ==
  /\ fin.pc = "records" /\ Len(fin.records) = 2 /\ fin.i = 3
  /\ ~fin.records[1].body.json
  /\ fin.records[2].body.jobId # None
  /\ fin.processed = 1 /\ fin.failed = 1
  /\ table[fin.records[2].body.jobId[1]].status = FAILED_FINAL

(* ------------------------------- Retry -------------------------------- *)
\* the step in which the Retry call of client c leaves its read of the job
ReadStep(c) == sub[c].pc = "retry_get" /\ sub'[c].pc # "retry_get"

\* the stored job of the Retry call of c exists and is not PENDING
StoredNotPending(c) ==
  sub[c].arg \in DOMAIN table /\ table[sub[c].arg].status # PENDING

\* C17 as stated: a Retry call on a job whose stored status is not PENDING
\* ends at its read with the invalid-state answer, 400, has published no
\* message and leaves table and queue as they were
C17_RetryNotPendingRejected ==
  [][\A c \in Clients :
       ReadStep(c) /\ StoredNotPending(c)
         => /\ sub'[c].pc = "idle" /\ sub'[c].http = 400 /\ sub'[c].job # None
            /\ sub'[c].nSend = 0 /\ ~sub'[c].sent
            /\ table' = table /\ queue' = queue]_vars

\* C17: a Retry call on a job whose stored status is not PENDING ends at its
\* read, with the invalid-state answer, 400, when the read succeeded and
\* with 500 when the read itself failed; either way it has published no
\* message and leaves table and queue as they were
C17_RetryNotPendingRejectedUnlessReadFails ==
  [][\A c \in Clients :
       ReadStep(c) /\ StoredNotPending(c)
         => /\ sub'[c].pc = "idle"
            /\ \/ sub'[c].http = 400 /\ sub'[c].job # None /\ sub'[c].e = None
               \/ sub'[c].http = 500 /\ sub'[c].job = None /\ sub'[c].e # None
            /\ sub'[c].nSend = 0 /\ ~sub'[c].sent
            /\ table' = table /\ queue' = queue]_vars

\* a Retry call was rejected for a job that the compensation of its create
\* call had marked FAILED, and the queue holds no message of the job
C17_Witness ==
  \E c \in Clients :
    /\ sub[c].op = "retry" /\ sub[c].pc = "idle" /\ sub[c].http = 400
    /\ sub[c].job # None /\ sub[c].job[1].status = FAILED
    /\ sub[c].job[1].error # None
    /\ table[sub[c].arg].status = FAILED
    /\ queue = <<>> /\ dlq = <<>>

\* C18: a Retry call whose read finds no job under its id is answered with
\* 404, ends there, has published no message and leaves table and queue as
\* they were; 400 is the answer for a job in the wrong state only
C18_RetryAbsentIs404 ==
  [][\A c \in Clients :
       ReadStep(c) /\ sub[c].arg \notin DOMAIN table /\ sub'[c].e = None
         => /\ sub'[c].pc = "idle" /\ sub'[c].http = 404
            /\ sub'[c].nSend = 0 /\ ~sub'[c].sent
            /\ table' = table /\ queue' = queue]_vars

\* the step in which the Retry call of client c leaves its publish
PublishStep(c) == sub[c].pc = "retry_send" /\ sub'[c].pc # "retry_send"

\* the step adds exactly one message to the queue, for the job the Retry
\* call of c has read, and changes no other message
OneMessageAdded(c) ==
  \E m \in DOMAIN queue' \ DOMAIN queue :
    /\ DOMAIN queue' = DOMAIN queue \cup {m}
    /\ \A x \in DOMAIN queue : queue'[x] = queue[x]
    /\ queue'[m].body.json
    /\ queue'[m].body.jobId = Some(sub[c].arg)
    /\ queue'[m].body.payloadHash = sub[c].job[1].payload_hash
    /\ queue'[m].body.error = None

\* trace ids of the stored jobs and of the messages of both queues
KnownTraces ==
  {table[j].traceId : j \in DOMAIN table}
    \cup {queue[m].body.traceId : m \in DOMAIN queue}
    \cup {dlq[m].body.traceId : m \in {x \in DOMAIN dlq : dlq[x].body.json}}

\* the trace id of the message the step adds
AddedTrace == LET m == CHOOSE x \in DOMAIN queue' \ DOMAIN queue : TRUE
              IN queue'[m].body.traceId

\* C19 as stated: a successful Retry adds exactly one message with the id
\* and payloadHash of the job and a trace id that no job and no message has,
\* and returns the job as read; a failed publish adds none; neither changes
\* a stored field of any job
C19_RetryPublishesFreshTrace ==
  [][\A c \in Clients :
       PublishStep(c)
         => /\ table' = table /\ dlq' = dlq
            /\ sub'[c].pc = "idle" /\ sub'[c].nSend = 1 /\ sub'[c].nPut = 0 /\ sub'[c].nUpd = 0
            /\ \/ /\ sub'[c].http = 200 /\ sub'[c].ret = sub[c].job
                  /\ OneMessageAdded(c)
                  /\ AddedTrace \notin KnownTraces
               \/ sub'[c].http = 500 /\ sub'[c].ret = None /\ queue' = queue]_vars

\* C19: a successful Retry adds exactly one message with the id and
\* payloadHash of the job and the trace id of the request, which is the
\* X-Trace-Id header of the request when it has one and otherwise a generated
\* one that no job and no message has, and returns the job as read; a failed
\* publish adds none; neither changes a stored field of any job
C19_RetryPublishesRequestTrace ==
  [][\A c \in Clients :
       PublishStep(c)
         => /\ table' = table /\ dlq' = dlq
            /\ sub'[c].pc = "idle" /\ sub'[c].nSend = 1 /\ sub'[c].nPut = 0 /\ sub'[c].nUpd = 0
            /\ \/ /\ sub'[c].http = 200 /\ sub'[c].ret = sub[c].job
                  /\ OneMessageAdded(c)
                  /\ AddedTrace = sub[c].trace_id
                  /\ AddedTrace \notin TraceInputs => AddedTrace \notin KnownTraces
               \/ sub'[c].http = 500 /\ sub'[c].ret = None /\ queue' = queue]_vars

\* a job that its create call left PENDING with no message, the publish and
\* the compensating update having failed, has its one message through a
\* Retry without header, with a trace id other than its stored one; the
\* stored job is as the create call wrote it
C19_Witness ==
  \E c \in Clients, m \in DOMAIN queue :
    /\ sub[c].op = "retry" /\ sub[c].pc = "idle" /\ sub[c].http = 200
    /\ sub[c].nSend = 1 /\ sub[c].ret = sub[c].job
    /\ DOMAIN queue = {m} /\ dlq = <<>> /\ nextMsg = 2
    /\ queue[m].body.jobId = Some(sub[c].arg)
    /\ queue[m].body.traceId = sub[c].trace_id
    /\ sub[c].trace_id \notin TraceInputs
    /\ GetJob(table, sub[c].arg) = sub[c].job
    /\ table[sub[c].arg].status = PENDING
    /\ table[sub[c].arg].traceId # sub[c].trace_id

(* ------------------------------ progress ------------------------------ *)
\* the create call of client c has stored a job and has returned it
Created(c) ==
  /\ sub[c].op = "create" /\ sub[c].pc = "idle" /\ sub[c].http = 201
  /\ sub[c].nPut = 1 /\ sub[c].ret # None

\* job j is the job a create call has stored and returned
Accepted(j) == \E c \in Clients : Created(c) /\ sub[c].ret[1].job_id = j

\* messages of job j in a queue
MessagesOf(q, j) == {m \in DOMAIN q : q[m].body.jobId = Some(j)}

\* job j is stored SUCCEEDED and the work queue holds no message of it
SucceededAndAcknowledged(j) ==
  /\ j \in DOMAIN table /\ table[j].status = SUCCEEDED
  /\ MessagesOf(queue, j) = {}

\* a create call that has stored a job has returned it PENDING and has
\* published one message
ReturnedPendingPublishedOnce ==
  \A c \in Clients :
    Created(c) => /\ sub[c].ret[1].status = PENDING
                  /\ sub[c].nSend = 1 /\ sub[c].sent

\* C20 as stated: with no call failing and fair workers, a job that Submit
\* has accepted was returned PENDING with one message published for it, and
\* from then on it is eventually stored SUCCEEDED with no message of it left
\* in the work queue
C20_AcceptedJobSucceeds ==
  /\ []ReturnedPendingPublishedOnce
  /\ \A j \in 1..MaxJobs : Accepted(j) ~> SucceededAndAcknowledged(j)

\* C20: with no call failing and fair workers, a job that Submit has
\* accepted was returned PENDING with one message published for it, and
\* from then on it is eventually stored SUCCEEDED with no message of it left
\* in the work queue, unless its message is moved to the dead-letter queue
C20_AcceptedJobSucceedsUnlessDeadLettered ==
  /\ []ReturnedPendingPublishedOnce
  /\ \A j \in 1..MaxJobs :
       [](MessagesOf(dlq, j) = {}) => (Accepted(j) ~> SucceededAndAcknowledged(j))

\* the job a create call returned PENDING is stored SUCCEEDED with the
\* result of its work after one attempt, its one message is gone from the
\* work queue and was never dead-lettered
C20_Witness ==
  \E c \in Clients :
    /\ Created(c) /\ sub[c].ret[1].status = PENDING /\ sub[c].nSend = 1
    /\ SucceededAndAcknowledged(sub[c].ret[1].job_id)
    /\ table[sub[c].ret[1].job_id].result # None
    /\ table[sub[c].ret[1].job_id].attempts = Some(1)
    /\ nextMsg = 2 /\ queue = <<>> /\ dlq = <<>>

(* ------------------------------ job fields ---------------------------- *)
\* C21: in no step does the stored attempts value of a job decrease
C21_AttemptsNeverDecrease ==
  [][\A j \in DOMAIN table :
       table[j].attempts # None
         => /\ j \in DOMAIN table'
            /\ table'[j].attempts # None
            /\ table'[j].attempts[1] >= table[j].attempts[1]]_vars

\* the stored status of job j is FAILED_FINAL after the step and was not
\* before it
BecomesFinal(j) ==
  /\ table'[j].status = FAILED_FINAL
  /\ j \in DOMAIN table => table[j].status # FAILED_FINAL

\* C22: the stored status of a job becomes FAILED_FINAL only in a step in
\* which the Finalizer goes over a record that carries the id of the job; no
\* step of the Submission Service or of a worker makes it FAILED_FINAL
C22_FinalOnlyByFinalizer ==
  [][\A j \in DOMAIN table' :
       BecomesFinal(j)
         => /\ RecordStep /\ RecordBody.json /\ RecordBody.jobId = Some(j)
            /\ sub' = sub /\ wrk' = wrk]_vars

\* a job that a worker has marked, attempts at least 1, is FAILED_FINAL
\* after the Finalizer went over the dead-lettered message of the job
C22_Witness ==
  \E j \in DOMAIN table :
    /\ table[j].status = FAILED_FINAL
    /\ table[j].attempts # None /\ table[j].attempts[1] >= 1
    /\ fin.processed >= 1
    /\ \E m \in DOMAIN fin.records : fin.records[m].body.jobId = Some(j)

(* --------------------------- order of a call -------------------------- *)
\* the process_job call of worker w is on a job fetched with a status that
\* is not terminal
FetchedLive(w) ==
  wrk[w].job # None /\ wrk[w].job[1].status \notin {SUCCEEDED, FAILED_FINAL}

\* the step in which the process_job call of w leaves its PROCESSING update
MarkStep(w) == wrk[w].pc = "mark" /\ wrk'[w].pc # "mark"

\* the PROCESSING update of the call of w failed
MarkFailed(w) ==
  FetchedLive(w) /\ wrk[w].log # <<>> /\ wrk[w].log[1].ev = "update_failed"

\* C23: in a process_job call on a job that is not terminal, every
\* invocation of the work comes after the update to PROCESSING with the
\* fetched attempts plus 1, which is what the table holds right after the
\* update; when the update fails the call returns False at once, the work
\* is not invoked, no acknowledge is attempted and table and queue are left
\* as they were
C23_MarkBeforeWork ==
  /\ [](\A w \in Workers :
          /\ FetchedLive(w) /\ Count(wrk[w].log, "work") > 0
               => wrk[w].log[1] = Ev("update_PROCESSING", wrk[w].job[1].attempts + 1)
          /\ MarkFailed(w)
               => /\ Len(wrk[w].log) = 1
                  /\ wrk[w].ret = Some(FALSE) /\ wrk[w].result = None)
  /\ [][\A w \in Workers :
          MarkStep(w)
            => \/ /\ wrk'[w].pc = "work" /\ wrk[w].log = <<>>
                  /\ wrk'[w].log = <<Ev("update_PROCESSING", wrk[w].job[1].attempts + 1)>>
                  /\ table'[wrk[w].job[1].job_id].status = PROCESSING
                  /\ table'[wrk[w].job[1].job_id].attempts = Some(wrk[w].job[1].attempts + 1)
                  /\ queue' = queue
               \/ /\ wrk'[w].pc = "batch" /\ wrk'[w].ret = Some(FALSE)
                  /\ wrk'[w].log = <<Ev("update_failed", 0)>>
                  /\ table' = table /\ queue' = queue]_vars

\* the second delivery of a job whose first call marked it and invoked the
\* work: its PROCESSING update has failed, the call has returned False and
\* the message is still in the queue
C23_Witness ==
  \E w \in Workers :
    /\ MarkFailed(w) /\ wrk[w].ret = Some(FALSE)
    /\ wrk[w].job[1].status = PROCESSING /\ wrk[w].job[1].attempts = 1
    /\ table[wrk[w].job[1].job_id].attempts = Some(1)
    /\ wrk[w].mid \in DOMAIN queue

(* ----------------------- Finalizer, repeated -------------------------- *)
\* the handler goes over a record that carries a job id
IdStep == RecordStep /\ RecordBody.json /\ RecordBody.jobId # None

\* the job of the body is stored FAILED_FINAL with the error of the body
AlreadyFinal(tbl, body) ==
  /\ body.jobId[1] \in DOMAIN tbl
  /\ tbl[body.jobId[1]].status = FAILED_FINAL
  /\ tbl[body.jobId[1]].error = FinalError(body)

\* one more Finalize of a job that a Finalize of the same body has stamped
\* changes nothing of the table
SecondFinalizeIsNoOp == IdStep /\ AlreadyFinal(table, RecordBody) => table' = table

\* C24 as stated: whenever the handler goes over a record that carries a
\* job id, that job is FAILED_FINAL with the error of the body afterwards
\* whatever its status was, a job that is not stored included, and a
\* second Finalize with the same body leaves status and error as the first
\* left them
C24_FinalizeUnconditionalIdempotent ==
  [][/\ IdStep => AlreadyFinal(table', RecordBody)
     /\ SecondFinalizeIsNoOp]_vars

\* C24: whenever the handler goes over a record that carries a job id and
\* its storage update succeeds, that job is FAILED_FINAL with the error of
\* the body afterwards whatever its status was, a job that is not stored
\* included; a second Finalize with the same body, made or failed, leaves
\* status and error as the first left them, and so does the update applied
\* twice to any table the program reaches
C24_FinalizeUnconditionalIdempotentWhenUpdated ==
  /\ [](\A body \in DeadLetterBodies :
          body.json /\ body.jobId # None
            => LET once == HandlerUpdate(table, body.jobId[1], ErrorMessage(body))
               IN /\ AlreadyFinal(once, body)
                  /\ HandlerUpdate(once, body.jobId[1], ErrorMessage(body)) = once)
  /\ [][/\ IdStep /\ fin'.processed = fin.processed + 1 => AlreadyFinal(table', RecordBody)
        /\ IdStep /\ fin'.processed = fin.processed => table' = table
        /\ SecondFinalizeIsNoOp]_vars

\* a batch of two messages with the same body for the job that the
\* compensation of its create call had marked FAILED: both records were
\* processed and the job is FAILED_FINAL with the error of the body
C24_Witness ==
  /\ fin.pc = "records" /\ Len(fin.records) = 2 /\ fin.i = 3 /\ fin.processed = 2
  /\ fin.records[1].body = fin.records[2].body
  /\ fin.records[1].body.jobId # None
  /\ AlreadyFinal(table, fin.records[1].body)
  /\ \E c \in Clients :
       /\ PublishFailed(c) /\ sub[c].compensated
       /\ fin.records[1].body.jobId = Some(sub[c].job[1].job_id)

(* ------------------------- writers of attempts ------------------------ *)
\* a step of a call of the Submission Service
ServiceStep == sub' # sub

C26_ResultOnlyOnSucceeded ==
  \A j \in DOMAIN table : table[j].result # None => table[j].status = SUCCEEDED

\* C27: a job that Submit has stored and whose status is FAILED or
\* FAILED_FINAL has an error that is not null
C27_FailedHasError ==
  \A j \in DOMAIN table :
    table[j].jobType # None /\ table[j].status \in {FAILED, FAILED_FINAL}
      => table[j].error # None

(* ------------------------------ poll loop ----------------------------- *)
\* positions of a worker inside a process_job call
CallPcs == {"gate_ack", "mark", "work", "succeed", "ack"}

\* the step in which the process_job call of worker w ends
CallEnds(w) == wrk[w].pc \in CallPcs /\ wrk'[w].pc \notin CallPcs

\* C28: a process_job call ends by returning True or False to the loop over
\* the batch, which goes on with the next message, whatever failed in the
\* call: the work, a storage update or a delete of the message; and on the
\* way a failure keeps the worker inside the call or ends it so
C28_ProcessJobNeverRaises ==
  /\ [](\A w \in Workers : wrk[w].pc \in CallPcs => wrk[w].ret = None)
  /\ [][\A w \in Workers :
          CallEnds(w)
            => /\ wrk'[w].pc = "batch"
               /\ wrk'[w].ret \in {Some(TRUE), Some(FALSE)}
               /\ wrk'[w].batch = Tail(wrk[w].batch)]_vars

\* one call in which the work raised, then the SUCCEEDED update failed,
\* then the delete failed, has returned False
C28_Witness ==
  \E w \in Workers :
    /\ wrk[w].pc = "batch" /\ wrk[w].ret = Some(FALSE)
    /\ wrk[w].errs # <<>>
    /\ Count(wrk[w].log, "update_failed") > 0
    /\ Count(wrk[w].log, "ack_failed") > 0

\* positions of a worker that is going over a batch
BatchPcs == CallPcs \cup {"batch", "drop"}

\* C29: a worker has left the loop only if the shutdown flag is set, and it
\* leaves it at the test of the while; as long as the flag is not set every
\* step of a worker that has messages left in its batch keeps it going over
\* the batch, with the same messages or with the first one done with,
\* whether the step is a failed lookup, a failed delete or the end of a
\* process_job call, and the sleep after a failed receive leads back to the
\* receive
C29_LoopSurvivesFailures ==
  /\ [](\A w \in Workers : wrk[w].pc = "stopped" => shutdown_flag)
  /\ [][\A w \in Workers :
          wrk'[w] # wrk[w]
            => /\ wrk'[w].pc = "stopped" => shutdown_flag /\ wrk[w].pc = "poll"
               /\ ~shutdown_flag /\ wrk[w].batch # <<>>
                    => /\ wrk'[w].pc \in BatchPcs
                       /\ wrk'[w].batch \in {wrk[w].batch, Tail(wrk[w].batch)}
               /\ wrk[w].pc = "mark" /\ wrk'[w].pc = "batch"
                    => wrk'[w].ret = Some(FALSE)
               /\ wrk[w].pc = "sleep" => wrk'[w].pc = "poll"
               /\ wrk[w].pc = "poll" /\ ~shutdown_flag
                    => wrk'[w].pc \in {"batch", "sleep"}]_vars

\* with the flag not set, the worker is inside the process_job call of job
\* 2 while job 1 is still PENDING with its message received once and kept:
\* the lookup of job 1 or its PROCESSING update had failed
C29_Witness ==
  \E w \in Workers :
    /\ ~shutdown_flag
    /\ wrk[w].pc = "work" /\ wrk[w].job[1].job_id = 2
    /\ 1 \in DOMAIN table /\ table[1].status = PENDING
    /\ \E m \in MessagesOf(queue, 1) : queue[m].rc = 1 /\ ~queue[m].visible

\* C30: once the shutdown flag is set, a worker going over a batch starts
\* on no further message: it leaves the batch, whose remaining messages
\* stay in the queue, and the table as they are; a worker at the test of
\* the while leaves the loop without a receive; a process_job call in
\* progress goes on step by step and ends by returning True or False; a
\* worker that has left the loop does nothing more; and the worker
\* eventually leaves the loop
C30_ShutdownStopsLoop ==
  /\ [][shutdown_flag
          => \A w \in Workers :
               wrk'[w] # wrk[w]
                 => /\ wrk[w].pc = "batch"
                         => wrk'[w].pc = "poll" /\ queue' = queue /\ table' = table
                    /\ wrk[w].pc = "poll"
                         => wrk'[w].pc = "stopped" /\ queue' = queue
                    /\ wrk[w].pc = "sleep" => wrk'[w].pc = "poll"
                    /\ wrk[w].pc \in CallPcs
                         => \/ /\ wrk'[w].pc \in CallPcs /\ wrk'[w].ret = None
                               /\ wrk'[w].batch = wrk[w].batch
                            \/ /\ wrk'[w].pc = "batch"
                               /\ wrk'[w].ret \in {Some(TRUE), Some(FALSE)}
                    /\ wrk[w].pc # "stopped"]_vars
  /\ shutdown_flag ~> \A w \in LoopWorkers : wrk[w].pc = "stopped"

\* the flag is set and the worker has left the loop: job 1 is SUCCEEDED and
\* its message deleted, job 2 whose message was received with it is still
\* PENDING with no attempt counted and its message kept
C30_Witness ==
  /\ shutdown_flag
  /\ \A w \in LoopWorkers : wrk[w].pc = "stopped"
  /\ {1, 2} \subseteq DOMAIN table
  /\ table[1].status = SUCCEEDED /\ MessagesOf(queue, 1) = {}
  /\ table[2].status = PENDING /\ table[2].attempts = Some(0)
  /\ \E m \in MessagesOf(queue, 2) : queue[m].rc = 1 /\ ~queue[m].visible

(* ------------------------- published messages ------------------------- *)
\* the body of a message names a job that a put wrote, with its payload hash
OfStoredJob(tbl, body) ==
  /\ body.json /\ body.jobId # None
  /\ body.jobId[1] \in DOMAIN tbl
  /\ tbl[body.jobId[1]].jobType # None
  /\ body.payloadHash # None
  /\ body.payloadHash = tbl[body.jobId[1]].payloadHash

\* C31 as stated: every message in the work queue carries the id of a job
\* already written to storage, and that job's payloadHash and traceId
C31_MessageCarriesStoredFields ==
  \A m \in DOMAIN queue :
    /\ OfStoredJob(table, queue[m].body)
    /\ queue[m].body.traceId = table[queue[m].body.jobId[1]].traceId

\* C31: every message in the work queue carries the id and the payloadHash
\* of a job that was written to storage before the message was published;
\* its traceId is that of the request that published it, which for the
\* message of Submit is the stored traceId of the job and for the message
\* of Retry is the trace id of the retry request
C31_MessageCarriesIdHashRequestTrace ==
  /\ [](\A m \in DOMAIN queue : OfStoredJob(table, queue[m].body))
  /\ [][\A m \in DOMAIN queue' \ DOMAIN queue : \A c \in Clients :
          sub'[c] # sub[c] =>
            /\ OfStoredJob(table, queue'[m].body)
            /\ table' = table
            /\ queue'[m].body.traceId = sub[c].trace_id
            /\ sub[c].op = "create" =>
                 queue'[m].body.traceId = table[queue'[m].body.jobId[1]].traceId]_vars

\* the work queue holds the message of Submit, with the stored trace id of
\* its job, and a message of Retry for the same job with another trace id
C31_Witness ==
  \E m, n \in DOMAIN queue :
    /\ queue[m].body.jobId = Some(1) /\ queue[n].body.jobId = Some(1)
    /\ OfStoredJob(table, queue[m].body) /\ OfStoredJob(table, queue[n].body)
    /\ queue[m].body.traceId = table[1].traceId
    /\ queue[n].body.traceId # table[1].traceId
    /\ sub["c1"].op = "retry" /\ sub["c1"].http = 200
    /\ queue[n].body.traceId = sub["c1"].trace_id

(* -------------------------- duplicate delivery ------------------------ *)
\* a worker starts a process_job call in this step
CallStarts(w) == wrk[w].pc = "batch" /\ wrk'[w].pc \in CallPcs

\* C32: a delivery of a job whose stored status is PENDING or PROCESSING
\* passes the idempotency gate whatever another worker is doing with the
\* job, and the call goes on to the PROCESSING update and the work, so that
\* two workers can both invoke the work of one job; a delivery fetched after
\* the job is SUCCEEDED only acknowledges: no update, no work
C32_DuplicateDeliveryGate ==
  /\ [][\A w \in Workers :
          CallStarts(w) =>
            LET status == table[wrk'[w].job[1].job_id].status
            IN /\ wrk'[w].job[1].status = status
               /\ status \in {PENDING, PROCESSING} => wrk'[w].pc = "mark"
               /\ status = SUCCEEDED => wrk'[w].pc = "gate_ack"]_vars
  /\ [](\A w \in Workers :
          /\ wrk[w].pc \in {"mark", "work", "succeed", "ack"} =>
               wrk[w].job[1].status \in {PENDING, PROCESSING}
          /\ wrk[w].job # None /\ wrk[w].job[1].status = SUCCEEDED =>
               /\ Count(wrk[w].log, "work") = 0
               /\ Count(wrk[w].log, "update_PROCESSING") = 0
               /\ Count(wrk[w].log, "update_SUCCEEDED") = 0
               /\ wrk[w].pc = "gate_ack" \/ wrk[w].log = <<Ev("ack", 0)>>)

\* double execution: two workers hold the same job, one fetched PENDING and
\* the other PROCESSING, and both have invoked its work; the job is SUCCEEDED
\* by the first and the second is about to write SUCCEEDED again
C32_Witness ==
  /\ wrk["w1"].job # None /\ wrk["w2"].job # None
  /\ wrk["w1"].job[1].job_id = wrk["w2"].job[1].job_id
  /\ wrk["w1"].job[1].status = PENDING /\ wrk["w2"].job[1].status = PROCESSING
  /\ Count(wrk["w1"].log, "work") = 1 /\ Count(wrk["w2"].log, "work") = 1
  /\ wrk["w1"].ret = Some(TRUE) /\ wrk["w2"].pc = "succeed"
  /\ table[wrk["w1"].job[1].job_id].status = SUCCEEDED

(* ----------------------- bounds of one call --------------------------- *)
\* C33: whatever the work, storage and the queue answer, one process_job
\* call invokes the work at most max_retries (3) times, sleeps at most
\* max_retries - 1 times, and returns True or False
C33_CallBounded ==
  /\ [](\A w \in Workers :
          /\ Count(wrk[w].log, "work") <= max_retries
          /\ Count(wrk[w].log, "sleep") <= max_retries - 1
          /\ wrk[w].pc \in CallPcs => wrk[w].attempt \in 0..(max_retries - 1))
  /\ \A w \in {"w1"} :
       wrk[w].pc \in CallPcs
         ~> wrk[w].pc = "batch" /\ wrk[w].ret \in {Some(TRUE), Some(FALSE)}

\* a call that used all its attempts on failures of three kinds: the work
\* raised a retryable error, the SUCCEEDED update failed with a retryable
\* error, the delete of the message failed, and the call returned False
C33_Witness ==
  /\ wrk["w1"].ret = Some(FALSE)
  /\ Events(wrk["w1"].log) =
       <<"update_PROCESSING", "work", "sleep", "work", "update_failed", "sleep",
         "work", "update_SUCCEEDED", "ack_failed">>

(* ------------------- compensation and the publish --------------------- *)
\* C34: the compensation of create_job marks a job FAILED only if no message
\* of the job was published: after a successful publish no later failure of
\* the call (metric emission) makes the compensating update, no FAILED job
\* has a message in the work queue, and the call does not end with an error
C34_CompensationOnlyUnpublished ==
  /\ \A c \in Clients :
       sub[c].op = "create" /\ sub[c].sent =>
         /\ sub[c].pc # "compensate"
         /\ sub[c].nUpd = 0 /\ ~sub[c].compensated
         /\ sub[c].pc = "idle" => sub[c].http = 201
  /\ \A j \in DOMAIN table : table[j].status = FAILED => MessagesOf(queue, j) = {}

\* the put_job of a create call failed
PutFailed(c) ==
  /\ sub[c].op = "create" /\ sub[c].nPut = 1 /\ sub[c].e # None
  /\ Len(sub[c].e[1]) >= Len(PutPrefix)
  /\ SubSeq(sub[c].e[1], 1, Len(PutPrefix)) = PutPrefix

\* C35: when the put_job of create_job fails the call publishes no message
\* and issues no storage update for the new job id, and no item exists for
\* that id afterwards
C35_FailedWriteLeavesNothing ==
  \A c \in Clients :
    PutFailed(c) =>
      /\ sub[c].nSend = 0
      /\ sub[c].nUpd = 0
      /\ sub[c].job[1].job_id \notin DOMAIN table

(* ----------------------- Success and the acknowledge ------------------ *)
\* C36 as stated: whenever process_job has returned True the delivered
\* message has been deleted from the work queue
C36_SuccessMeansAcknowledged ==
  \A w \in Workers : wrk[w].ret = Some(TRUE) => wrk[w].mid \notin DOMAIN queue

\* C36: whenever process_job has returned True for a job it fetched live,
\* the last thing it did was to delete the delivered message, and a delete
\* that fails on this path is a failed attempt that never returns True; on
\* the path of the idempotency gate the call returns True whether its one
\* delete succeeded or failed, and after a failed one the message is still
\* in the queue as the call returns
C36_SuccessMeansAcknowledgedUnlessGate ==
  /\ [](\A w \in Workers :
          wrk[w].ret = Some(TRUE) =>
            \/ /\ ~FetchedTerminal(w)
               /\ wrk[w].log[Len(wrk[w].log)].ev = "ack"
               /\ wrk[w].mid \notin DOMAIN queue
            \/ /\ FetchedTerminal(w)
               /\ wrk[w].log \in {<<Ev("ack", 0)>>, <<Ev("ack_failed", 0)>>}
               /\ wrk[w].log = <<Ev("ack", 0)>> => wrk[w].mid \notin DOMAIN queue)
  /\ [][\A w \in Workers :
          /\ wrk[w].pc = "ack" /\ wrk'[w] # wrk[w] /\ wrk[w].mid \in DOMAIN queue' =>
               wrk'[w].ret # Some(TRUE)
          /\ wrk[w].pc = "gate_ack" /\ wrk'[w] # wrk[w] =>
               /\ wrk'[w].ret = Some(TRUE)
               /\ wrk[w].mid \in DOMAIN queue' =>
                    wrk'[w].log = <<Ev("ack_failed", 0)>>]_vars

\* a call on a live job whose first delete failed has returned True after a
\* later attempt deleted the message; the job is SUCCEEDED
C36_Witness ==
  \E w \in Workers :
    /\ ~FetchedTerminal(w) /\ wrk[w].ret = Some(TRUE)
    /\ Count(wrk[w].log, "ack_failed") = 1 /\ Count(wrk[w].log, "ack") = 1
    /\ wrk[w].mid \notin DOMAIN queue
    /\ table[wrk[w].job[1].job_id].status = SUCCEEDED

(* ------------------------ work after the write ------------------------ *)
\* C37: within one process_job call the work is never invoked after the
\* SUCCEEDED update of the call, made or failed, and SUCCEEDED is written
\* at most once
C37_NoWorkAfterSucceededWrite ==
  \A w \in Workers :
    LET log == wrk[w].log
    IN /\ Count(log, "update_SUCCEEDED") <= 1
       /\ \A i, k \in 1..Len(log) :
            i < k /\ log[i].ev \in {"update_SUCCEEDED", "update_failed"} =>
              log[k].ev # "work"

(* ----------------------------- termination ---------------------------- *)
\* the stored status of a job is SUCCEEDED or FAILED_FINAL
Terminal(j) == j \in DOMAIN table /\ table[j].status \in {SUCCEEDED, FAILED_FINAL}

\* every job with a message in the work queue eventually is SUCCEEDED or
\* FAILED_FINAL
EnqueuedReachesTerminal ==
  \A j \in 1..MaxJobs : MessagesOf(queue, j) # {} ~> Terminal(j)

\* C38: when storage never fails, the queue redelivers and dead-letters and
\* the workers and the Finalizer are scheduled fairly, every job with a
\* message in the work queue eventually is SUCCEEDED or FAILED_FINAL, and no
\* job stays PROCESSING forever
C38_EnqueuedJobFinishes ==
  /\ EnqueuedReachesTerminal
  /\ \A j \in 1..MaxJobs : ~<>[](j \in DOMAIN table /\ table[j].status = PROCESSING)

(* ------------------- consumed dead-lettered messages ------------------ *)
\* C39: a message with the id of a stored job leaves the dead-letter queue
\* only when its job is FAILED_FINAL: after a failed update of a record the
\* batch is not consumed
C39_ConsumedMeansFinal ==
  [][\A m \in DOMAIN dlq \ DOMAIN dlq' :
       LET body == dlq[m].body
       IN body.json /\ body.jobId # None /\ ItemOf(table, body.jobId[1]).jobType # None =>
            table[body.jobId[1]].status = FAILED_FINAL]_vars

(* --------------------------- poison messages -------------------------- *)
\* the poll loop of a worker takes the next message of its batch in this step
TakesMessage(w) == wrk[w].pc = "batch" /\ wrk[w].batch # <<>> /\ wrk'[w] # wrk[w]

\* a body that is not JSON, or whose job id has no stored job
Undeliverable(tbl, body) ==
  \/ ~body.json
  \/ body.json /\ body.jobId # None /\ body.jobId[1] \notin DOMAIN tbl

\* what the loop never does with a message it does not hand to process_job
NoWorkNoWrite(w) ==
  /\ table' = table
  /\ wrk'[w].pc \notin CallPcs

\* C40 as stated: the loop deletes a message whose body is not JSON or whose
\* job id has no stored job, without work and without a write; a message
\* with a JSON body without a job id causes no work and no write
C40_PoisonMessageDeleted ==
  [][\A w \in Workers :
       /\ TakesMessage(w) /\ Undeliverable(table, Head(wrk[w].batch).body) =>
            /\ NoWorkNoWrite(w) /\ queue' = queue
            /\ wrk'[w].pc = "drop" /\ wrk'[w].mid = Head(wrk[w].batch).mid
       /\ wrk[w].pc = "drop" /\ wrk'[w] # wrk[w] =>
            /\ NoWorkNoWrite(w)
            /\ wrk[w].mid \notin DOMAIN queue'
       /\ TakesMessage(w) /\ Head(wrk[w].batch).body.json
            /\ Head(wrk[w].batch).body.jobId = None =>
            /\ NoWorkNoWrite(w) /\ queue' = queue
            /\ wrk'[w].pc = "batch" /\ wrk'[w].batch = Tail(wrk[w].batch)]_vars

\* C40: for a message whose body is not JSON, and for one whose job id the
\* lookup finds no stored job for, the loop issues one delete of that
\* message, which removes it from the queue unless the delete fails, a
\* failure the loop ignores; when the lookup itself fails the message is
\* skipped without a delete; in none of these cases is the work invoked or
\* anything written to storage; a message with a JSON body without a job id
\* is skipped without work, write or delete
C40_PoisonMessageDeleteIssued ==
  [][\A w \in Workers :
       /\ TakesMessage(w) /\ Undeliverable(table, Head(wrk[w].batch).body) =>
            /\ NoWorkNoWrite(w) /\ queue' = queue
            /\ \/ wrk'[w].pc = "drop" /\ wrk'[w].mid = Head(wrk[w].batch).mid
               \/ /\ Head(wrk[w].batch).body.json
                  /\ wrk'[w].pc = "batch" /\ wrk'[w].batch = Tail(wrk[w].batch)
       /\ wrk[w].pc = "drop" /\ wrk'[w] # wrk[w] =>
            /\ NoWorkNoWrite(w)
            /\ wrk'[w].pc = "batch" /\ wrk'[w].batch = Tail(wrk[w].batch)
            /\ \/ /\ wrk'[w].log = <<Ev("ack", 0)>>
                  /\ wrk[w].mid \notin DOMAIN queue'
                  /\ \A m \in DOMAIN queue \ {wrk[w].mid} :
                       m \in DOMAIN queue' /\ queue'[m] = queue[m]
               \/ wrk'[w].log = <<Ev("ack_failed", 0)>> /\ queue' = queue
       /\ TakesMessage(w) /\ Head(wrk[w].batch).body.json
            /\ Head(wrk[w].batch).body.jobId = None =>
            /\ NoWorkNoWrite(w) /\ queue' = queue
            /\ wrk'[w].pc = "batch" /\ wrk'[w].batch = Tail(wrk[w].batch)]_vars

\* a batch of two stray messages was handled: the one that is not JSON was
\* deleted, the one without a job id was skipped and is still in the queue,
\* nothing was stored
C40_Witness ==
  /\ wrk["w1"].pc = "batch" /\ wrk["w1"].batch = <<>>
  /\ wrk["w1"].log = <<Ev("ack", 0)>>
  /\ table = <<>>
  /\ \E m \in DOMAIN queue :
       /\ DOMAIN queue = {m}
       /\ queue[m].body.json /\ queue[m].body.jobId = None
       /\ ~queue[m].visible /\ queue[m].rc = 1
  /\ nextMsg = 3

====
